---------------------------- MODULE Spec2Model ----------------------------
(***************************************************************************)
(* A model of the read-only query engine over the SQLite file format:     *)
(* the varint codec (util.rs), the table and index traversals and the     *)
(* SELECT executor (db.rs), the SELECT parser (query.rs) and the row       *)
(* count branch of the command line (main.rs).                            *)
(***************************************************************************)
EXTENDS Integers, Sequences, FiniteSets, TLC

VARIABLES
    engine,       \* the Db handle of the file opened: its pages and catalog
    op,           \* the command run on it: "none" until one has run
    arg,          \* the command's arguments
    out,          \* the command's result
    bytes,        \* read_varint: the byte slice handed to the decoder
    encoded_v,    \* the integer the slice was encoded from, or NoValue for a raw slice
    varint_pc,    \* "ready" before read_varint is called, "done" after it returned
    varint_out    \* read_varint: the returned (value, consumed)

db_vars == <<engine, op, arg, out>>
varint_vars == <<bytes, encoded_v, varint_pc, varint_out>>
vars == <<engine, op, arg, out, bytes, encoded_v, varint_pc, varint_out>>

NoValue == <<>>

(***************************************************************************)
(* 64-bit integers.  TLC's integers are 32 bits wide, so an i64 is kept   *)
(* as four 16-bit limbs, most significant first; every operation wraps at *)
(* 2^64 as the machine operation does.                                     *)
(***************************************************************************)
LimbBase == 2 ^ 16

I64Zero == <<0, 0, 0, 0>>

RECURSIVE BitAnd(_, _)
BitAnd(a, b) ==
    IF a = 0 \/ b = 0 THEN 0
    ELSE 2 * BitAnd(a \div 2, b \div 2) + (IF a % 2 = 1 /\ b % 2 = 1 THEN 1 ELSE 0)

RECURSIVE BitOr(_, _)
BitOr(a, b) ==
    IF a = 0 THEN b
    ELSE IF b = 0 THEN a
    ELSE 2 * BitOr(a \div 2, b \div 2) + (IF a % 2 = 1 \/ b % 2 = 1 THEN 1 ELSE 0)

\* x << n on an i64, 0 < n <= 8: bits shifted out of the top are discarded
Shl(x, n) ==
    LET t(k) == IF k > 4 THEN 0 ELSE x[k] * (2 ^ n)
    IN  [k \in 1..4 |-> (t(k) % LimbBase) + (t(k + 1) \div LimbBase)]

\* x | (b as i64) for a u8 b: the byte is zero-extended, only the low limb changes
OrByte(x, b) == [x EXCEPT ![4] = BitOr(x[4], b)]

\* the sign of the two's-complement i64
IsNegative(x) == x[1] >= 32768

(***************************************************************************)
(* util.rs: read_varint                                                    *)
(***************************************************************************)
VarintMaxLen == 9

\* first loop: strip the continuation bits, stop after the first byte without one;
\* i is the 0-based index of enumerate()
\* mutant: the continuation bit is not stripped from the bytes kept
RECURSIVE TrimLoop_NoMask(_, _, _, _)
TrimLoop_NoMask(bs, i, continue_bit, trimmed_bytes) ==
    IF i >= Len(bs) \/ ~continue_bit THEN trimmed_bytes
    ELSE LET byte == bs[i + 1]
             cb == BitAnd(byte, 128) = 128
         IN  IF i = 8 THEN Append(trimmed_bytes, byte)
             ELSE TrimLoop_NoMask(bs, i + 1, cb, Append(trimmed_bytes, byte))

\* mutant: the whole-byte case is taken one position early (i == 7)
RECURSIVE TrimLoop_StopAt7(_, _, _, _)
TrimLoop_StopAt7(bs, i, continue_bit, trimmed_bytes) ==
    IF i >= Len(bs) \/ ~continue_bit THEN trimmed_bytes
    ELSE LET byte == bs[i + 1]
             cb == BitAnd(byte, 128) = 128
         IN  IF i = 7 THEN Append(trimmed_bytes, byte)
             ELSE TrimLoop_StopAt7(bs, i + 1, cb, Append(trimmed_bytes, BitAnd(byte, 127)))

RECURSIVE TrimLoop(_, _, _, _)
TrimLoop(bs, i, continue_bit, trimmed_bytes) ==
    IF i >= Len(bs) \/ ~continue_bit THEN trimmed_bytes
    ELSE LET byte == bs[i + 1]
             cb == BitAnd(byte, 128) = 128
         IN  IF i = 8 THEN Append(trimmed_bytes, byte)
             ELSE TrimLoop(bs, i + 1, cb, Append(trimmed_bytes, BitAnd(byte, 127)))

\* second loop: compose the value, 7 bits per byte, 8 bits for the ninth
\* mutant: the ninth byte is shifted in like the others, by 7 bits
RECURSIVE ComposeLoop_Shift7(_, _, _)
ComposeLoop_Shift7(trimmed_bytes, i, res) ==
    IF i >= Len(trimmed_bytes) THEN res
    ELSE ComposeLoop_Shift7(trimmed_bytes, i + 1, OrByte(Shl(res, 7), trimmed_bytes[i + 1]))

RECURSIVE ComposeLoop(_, _, _)
ComposeLoop(trimmed_bytes, i, res) ==
    IF i >= Len(trimmed_bytes) THEN res
    ELSE IF i = 8 THEN OrByte(Shl(res, 8), trimmed_bytes[i + 1])
    ELSE ComposeLoop(trimmed_bytes, i + 1, OrByte(Shl(res, 7), trimmed_bytes[i + 1]))

read_varint(bs) ==
    IF Len(bs) > VarintMaxLen
    THEN [panic |-> TRUE, value |-> I64Zero, consumed |-> 0]
    ELSE LET trimmed_bytes == TrimLoop(bs, 0, TRUE, <<>>)
         IN  [panic |-> FALSE,
              value |-> ComposeLoop(trimmed_bytes, 0, I64Zero),
              consumed |-> Len(trimmed_bytes)]


(***************************************************************************)
(* The file format's varint encoder (the inverse the decoder is written   *)
(* against; the repository holds no encoder).  Values up to 56 bits take  *)
(* the minimal number of 7-bit groups, every group but the last flagged   *)
(* with the high bit; larger values take nine bytes, the ninth holding    *)
(* the low 8 bits unflagged.                                               *)
(***************************************************************************)
\* bit p (0 = least significant) of an i64
Bit(x, p) == (x[4 - (p \div 16)] \div (2 ^ (p % 16))) % 2

\* the 7-bit group made of bits p .. p+6
Group7(x, p) ==
    Bit(x, p) + 2 * Bit(x, p + 1) + 4 * Bit(x, p + 2) + 8 * Bit(x, p + 3)
    + 16 * Bit(x, p + 4) + 32 * Bit(x, p + 5) + 64 * Bit(x, p + 6)

\* the number of 7-bit groups a value below 2^56 needs (at least one)
GroupsNeeded(x) ==
    LET used == { n \in 1..8 : Group7(x, 7 * (n - 1)) # 0 }
    IN  IF used = {} THEN 1 ELSE CHOOSE n \in used : \A m \in used : m <= n

encode_varint(v) ==
    IF v[1] >= 256
    THEN [i \in 1..9 |-> IF i = 9 THEN v[4] % 256 ELSE Group7(v, 8 + 7 * (8 - i)) + 128]
    ELSE LET n == GroupsNeeded(v)
         IN  [i \in 1..n |-> Group7(v, 7 * (n - i)) + (IF i = n THEN 0 ELSE 128)]

(***************************************************************************)
(* Inputs of the varint specification.                                     *)
(***************************************************************************)
\* the byte slices of the unit test tests::it_works
TestInputs ==
    { <<23>>, <<129, 71>>,
      <<130, 225, 231, 112, 11, 0, 29, 37, 0>>,
      <<130, 225, 231, 240, 139, 225, 231, 240, 11>> }

\* a stopping byte with bit 6 set, a continuation byte with a small payload,
\* a continuation byte with every bit set
LongAlphabet == {71, 129, 255}

ShortAlphabet == {0, 1, 23, 71, 127, 128, 129, 192, 255}

LongInputs == UNION { [1..n -> LongAlphabet] : n \in 0..VarintMaxLen }

ShortInputs == UNION { [1..n -> ShortAlphabet] : n \in 1..2 }

RawInputs == TestInputs \cup LongInputs \cup ShortInputs

\* non-negative integers of at most 63 bits, around every length boundary of the encoding
LowLimbs == {0, 1, 127, 128, 16383, 16384, 65535}
TopLimbs == {0, 1, 127, 128, 255, 256, 32767}

EncodableValues ==
    { <<a, b, c, d>> : a \in TopLimbs, b \in LowLimbs, c \in LowLimbs, d \in LowLimbs }

\* the varint specification opens no file
NoFile == <<>>

VarintInit ==
    /\ engine = NoFile
    /\ op = "none"
    /\ arg = <<>>
    /\ out = <<>>
    /\ varint_pc = "ready"
    /\ varint_out = [panic |-> FALSE, value |-> I64Zero, consumed |-> 0]
    /\ \/ bytes \in RawInputs /\ encoded_v = NoValue
       \/ \E v \in EncodableValues : bytes = encode_varint(v) /\ encoded_v = v

ReadVarint ==
    /\ varint_pc = "ready"
    /\ varint_out' = read_varint(bytes)
    /\ varint_pc' = "done"
    /\ UNCHANGED <<bytes, encoded_v, db_vars>>

VarintNext == ReadVarint

SpecVarint == VarintInit /\ [][VarintNext]_vars


(***************************************************************************)
(* Claims about read_varint.                                               *)
(***************************************************************************)
\* the 1-based position of the first byte among positions 0..7 whose high bit is
\* clear, 0 when there is none
StopIndex(bs) ==
    LET stops == { i \in 1..Len(bs) : i <= 8 /\ bs[i] < 128 }
    IN  IF stops = {} THEN 0 ELSE CHOOSE i \in stops : \A j \in stops : i <= j

\* bit q (0 = least significant) of a byte
ByteBit(b, q) == (b \div (2 ^ q)) % 2

\* C6: when a byte among positions 0..7 has its high bit clear, read_varint consumes
\* the bytes up to and including the first such byte, the value is the big-endian
\* composition of the low 7 bits of exactly those bytes (so no later byte matters),
\* and the two slices of the unit test decode to (23, 1) and (199, 2).
C6_StopsAtFirstClearHighBit ==
    varint_pc = "done" =>
        /\ StopIndex(bytes) # 0 =>
              LET k == StopIndex(bytes) IN
              /\ ~varint_out.panic
              /\ varint_out.consumed = k
              /\ \A p \in 0..63 :
                    Bit(varint_out.value, p) =
                        IF p < 7 * k THEN ByteBit(bytes[k - (p \div 7)], p % 7) ELSE 0
        /\ bytes = <<23>> => varint_out.value = <<0, 0, 0, 23>> /\ varint_out.consumed = 1
        /\ bytes = <<129, 71>> => varint_out.value = <<0, 0, 0, 199>> /\ varint_out.consumed = 2

\* a nine-byte slice that stops at its fourth byte and carries flagged bytes after it
C6_Witness ==
    /\ varint_pc = "done"
    /\ Len(bytes) = 9
    /\ StopIndex(bytes) = 4
    /\ \E i \in 5..9 : bytes[i] >= 128
    /\ varint_out.consumed = 4

\* C7: when the first eight bytes of a nine-byte slice all carry the continuation
\* bit, read_varint consumes 9 bytes, the low 8 bits of the value are the ninth byte
\* whole, the 56 bits above them are the low 7 bits of the first eight bytes, and the
\* i64 is negative exactly when bit 6 of the first byte is set.
C7_NinthByteContributesEightBits ==
    (varint_pc = "done" /\ Len(bytes) = 9 /\ \A i \in 1..8 : bytes[i] >= 128) =>
        /\ ~varint_out.panic
        /\ varint_out.consumed = 9
        /\ \A p \in 0..7 : Bit(varint_out.value, p) = ByteBit(bytes[9], p)
        /\ \A p \in 8..63 :
              Bit(varint_out.value, p) = ByteBit(bytes[8 - ((p - 8) \div 7)], (p - 8) % 7)
        /\ IsNegative(varint_out.value) <=> ByteBit(bytes[1], 6) = 1

\* nine flagged bytes, the ninth with its high bit set too, decoded to a negative i64
C7_Witness ==
    /\ varint_pc = "done"
    /\ Len(bytes) = 9
    /\ \A i \in 1..9 : bytes[i] >= 128
    /\ varint_out.consumed = 9
    /\ IsNegative(varint_out.value)

\* C8: decoding the encoding of a non-negative integer of at most 63 bits gives the
\* integer back and consumes the whole encoding, between 1 and 9 bytes.
C8_VarintRoundTrip ==
    (varint_pc = "done" /\ encoded_v # NoValue) =>
        /\ ~varint_out.panic
        /\ varint_out.value = encoded_v
        /\ varint_out.consumed = Len(encode_varint(encoded_v))
        /\ 1 <= varint_out.consumed /\ varint_out.consumed <= 9

\* an integer above 2^56, whose encoding takes nine bytes, decoded
C8_Witness ==
    /\ varint_pc = "done"
    /\ encoded_v # NoValue
    /\ encoded_v[1] >= 256
    /\ varint_out.consumed = 9
    /\ varint_out.value = encoded_v


(***************************************************************************)
(* The database file, as the page decoder hands it to the traversals:     *)
(* decoded pages by page number, and the catalog read from page 1.        *)
(***************************************************************************)
\* Column: the decoded value of one record column
Str(t) == [tag |-> "Str", s |-> t, i |-> 0]
I8(n) == [tag |-> "I8", s |-> "", i |-> n]
I16(n) == [tag |-> "I16", s |-> "", i |-> n]
I24(n) == [tag |-> "I24", s |-> "", i |-> n]
Zero == [tag |-> "Zero", s |-> "", i |-> 0]
One == [tag |-> "One", s |-> "", i |-> 0]
Null == [tag |-> "Null", s |-> "", i |-> 0]

\* the four page variants; a leaf has no rightmost pointer (None, written 0)
LeafTablePage(cells) == [type |-> "LeafTable", cells |-> cells, rightmost_pointer |-> 0]
InteriorTablePage(cells, rightmost) ==
    [type |-> "InteriorTable", cells |-> cells, rightmost_pointer |-> rightmost]
LeafIdxPage(cells) == [type |-> "LeafIndex", cells |-> cells, rightmost_pointer |-> 0]
InteriorIdxPage(cells, rightmost) ==
    [type |-> "InteriorIdx", cells |-> cells, rightmost_pointer |-> rightmost]

\* the cells of the four page variants
LeafTableCell(rowid, columns) == [rowid |-> rowid, columns |-> columns]
TableInteriorCell(left, rowid) == [left_child_page_num |-> left, rowid |-> rowid]
IdxLeafCell(columns) == [columns |-> columns]
IdxInteriorCell(left, columns) == [left_child_page_num |-> left, columns |-> columns]

(***************************************************************************)
(* The files of the model: one table, companies(id integer primary key,   *)
(* name text, country text), stored as a table b-tree of one to three     *)
(* levels, with or without an index on country stored as an index b-tree  *)
(* of one or two levels.  Every file is one the file format's writer can  *)
(* produce: row ids increase in order, index entries are sorted by key    *)
(* then row id, an interior index cell holds an entry of its own.         *)
(***************************************************************************)
MaxRows == 3

TableName == "companies"
IdxName == "idx_companies_country"
PageSize == 2 ^ 12

Countries == {"eritrea", "mongolia"}

\* the byte order of the texts the model compares
TextOrder == <<"2", "bee", "chad", "eritrea", "mongolia">>
TextRank(t) == CHOOSE k \in 1..Len(TextOrder) : TextOrder[k] = t

RowNames == <<"ant", "bee", "cat", "dog", "eel", "fox", "gnu", "hen">>
NameOf(rowid) == RowNames[rowid]

\* the way the file format stores an integer: the values 0 and 1 have serial types of
\* their own, without a body
IntColumn(n) == IF n = 0 THEN Zero ELSE IF n = 1 THEN One ELSE I8(n)

\* the logical rows: row ids first, first+1, ..., each with a country
RowLists ==
    UNION { { [k \in 1..n |-> [rowid |-> first + k - 1, country |-> c[k]]] :
                c \in [1..n -> Countries] } :
            n \in 0..MaxRows, first \in 1..2 }

\* the leaf cell of a row; the integer primary key is stored as NULL
RowCell(r) == LeafTableCell(r.rowid, <<Null, Str(NameOf(r.rowid)), Str(r.country)>>)

Cells(rs) == [k \in 1..Len(rs) |-> RowCell(rs[k])]

\* the ways to cut a sequence into consecutive non-empty chunks
RECURSIVE Chunkings(_)
Chunkings(rs) ==
    IF rs = <<>> THEN { <<>> }
    ELSE UNION { { <<SubSeq(rs, 1, n)>> \o rest :
                     rest \in Chunkings(SubSeq(rs, n + 1, Len(rs))) } :
                 n \in 1..Len(rs) }

\* an empty table still has one (empty) leaf
LeafChunkings(rs) == IF rs = <<>> THEN { << <<>> >> } ELSE Chunkings(rs)

LastRowid(rs) == rs[Len(rs)].rowid

\* an interior page at page number base over one leaf per chunk, the leaves at
\* base+1, base+2, ...; the last leaf is the rightmost child
TwoLevelTable(chunks, base) ==
    LET k == Len(chunks)
    IN  << InteriorTablePage(
               [j \in 1..(k - 1) |-> TableInteriorCell(base + j, LastRowid(chunks[j]))],
               base + k) >>
        \o [j \in 1..k |-> LeafTablePage(Cells(chunks[j]))]

RECURSIVE Flatten(_)
Flatten(chunks) == IF chunks = <<>> THEN <<>> ELSE Head(chunks) \o Flatten(Tail(chunks))

\* a root at base over two interior pages, each over its own leaves
ThreeLevelTable(left, right, base) ==
    << InteriorTablePage(
           << TableInteriorCell(base + 1, LastRowid(Flatten(left))) >>,
           base + 2 + Len(left)) >>
    \o TwoLevelTable(left, base + 1)
    \o TwoLevelTable(right, base + 2 + Len(left))

\* the table b-trees holding the rows rs, as page sequences whose first page is the root
TableTrees(rs, base) ==
    { << LeafTablePage(Cells(rs)) >> }
    \cup { TwoLevelTable(ch, base) : ch \in LeafChunkings(rs) }
    \cup UNION { { ThreeLevelTable(l, r, base) :
                     l \in Chunkings(SubSeq(rs, 1, n)),
                     r \in Chunkings(SubSeq(rs, n + 1, Len(rs))) } :
                 n \in 1..(Len(rs) - 1) }

\* the index entries of the rows, sorted by key then row id
RECURSIVE IdxEntriesFrom(_, _)
IdxEntriesFrom(rs, k) ==
    IF k > Len(TextOrder) THEN <<>>
    ELSE SelectSeq(rs, LAMBDA r : r.country = TextOrder[k]) \o IdxEntriesFrom(rs, k + 1)

IdxEntries(rs) == IdxEntriesFrom(rs, 1)

EntryColumns(e) == << Str(e.country), IntColumn(e.rowid) >>

LeafIdxOf(es) == LeafIdxPage([k \in 1..Len(es) |-> IdxLeafCell(EntryColumns(es[k]))])

\* the index b-trees holding the entries es: one leaf, or a root whose single cell
\* holds entry n between two non-empty leaves
IdxTrees(es, base) ==
    { << LeafIdxOf(es) >> }
    \cup { << InteriorIdxPage(<< IdxInteriorCell(base + 1, EntryColumns(es[n])) >>, base + 2),
              LeafIdxOf(SubSeq(es, 1, n - 1)),
              LeafIdxOf(SubSeq(es, n + 1, Len(es))) >> :
           n \in 2..(Len(es) - 1) }

\* the descriptors get_first_page builds from the schema rows
TableInfo(root) ==
    [root_page_num |-> root,
     \* BTreeMap column name -> position in the CREATE TABLE text, in key order
     column_orders |-> << [name |-> "country", order |-> 2],
                          [name |-> "id", order |-> 0],
                          [name |-> "name", order |-> 1] >>]

IdxInfo(root) == [root_page_num |-> root, idx_name |-> IdxName, columns |-> {"country"}]

\* page 1 is the schema page; the table's root is page 2, the index follows the table
TableRoot == 2

MakeDb(rs, table, idx, has_idx) ==
    LET all == table \o idx
    IN  [rows |-> rs,
         entries |-> IF has_idx THEN IdxEntries(rs) ELSE <<>>,
         page_size |-> PageSize,
         pages |-> [p \in TableRoot..(TableRoot + Len(all) - 1) |-> all[p - TableRoot + 1]],
         table_infos |-> [t \in {TableName} |-> TableInfo(TableRoot)],
         idx_infos |-> IF has_idx
                       THEN [t \in {TableName} |-> IdxInfo(TableRoot + Len(table))]
                       ELSE [t \in {} |-> IdxInfo(0)]]

Databases ==
    UNION { UNION { { MakeDb(rs, t, <<>>, FALSE) }
                    \cup { MakeDb(rs, t, x, TRUE) :
                             x \in IdxTrees(IdxEntries(rs), TableRoot + Len(t)) } :
                    t \in TableTrees(rs, TableRoot) } :
            rs \in RowLists }


(***************************************************************************)
(* Results: Ok(v), an error value Err(msg) that `?` propagates, or a panic *)
(* (unwrap on None, todo!(), an index out of bounds) that ends the process.*)
(***************************************************************************)
Ok(v) == [kind |-> "Ok", val |-> v, msg |-> ""]
Err(m) == [kind |-> "Err", val |-> <<>>, msg |-> m]
Panic(m) == [kind |-> "Panic", val |-> <<>>, msg |-> m]

\* the `?` operator: an error or panic of r ends the function with it, an Ok value
\* goes on into the rest of the function
Try(r, F(_)) == IF r.kind # "Ok" THEN r ELSE F(r.val)

\* Result::map_err with a fixed message
MapErr(r, m) == IF r.kind = "Err" THEN Err(m) ELSE r

\* Option
None == [some |-> FALSE, v |-> ""]
Some(x) == [some |-> TRUE, v |-> x]

(***************************************************************************)
(* query.rs: SelectQuery::from_query_string, from the tokens of the query: *)
(* the SELECT list, the table name and the optional WHERE column = value.  *)
(***************************************************************************)
\* columns.insert(c, i) for every (i, c) of the enumerated list: a later insert of
\* the same name replaces the earlier position
RECURSIVE InsertColumns(_, _, _)
InsertColumns(column_caps, i, columns) ==
    IF i >= Len(column_caps) THEN columns
    ELSE LET c == column_caps[i + 1]
         IN  InsertColumns(column_caps, i + 1,
                 [n \in DOMAIN columns \cup {c} |-> IF n = c THEN i ELSE columns[n]])

NoCondition == [present |-> FALSE, column |-> "", value |-> ""]
Condition(c, v) == [present |-> TRUE, column |-> c, value |-> v]

from_query_string(column_caps, table, condition) ==
    [table_name |-> table,
     columns |-> InsertColumns(column_caps, 0, [n \in {} |-> 0]),
     where_column |-> IF condition.present THEN Some(condition.column) ELSE None,
     where_value |-> IF condition.present THEN Some(condition.value) ELSE None]

(***************************************************************************)
(* db.rs: page access                                                      *)
(***************************************************************************)
\* (page_num - 1) as u64 * page_size as u64.  The subtraction is made on a u32: for
\* page number 0 it overflows, and the negative value stands for what the build makes
\* of that
PageOffset(page_num, page_size) == (page_num - 1) * page_size

\* get_page: the page decoded at a byte offset, an error value when no page
\* header can be read there.  An offset from an overflowed subtraction is never read
\* in a build with overflow checks, which panics at the subtraction; in a build
\* without them the page number has wrapped to 2^32 - 1 and the offset lies beyond
\* the end of the file
get_page(db, page_offset) ==
    IF page_offset < 0
    THEN IF db.overflow_checks THEN Panic("attempt to subtract with overflow")
         ELSE Err("can't read page header")
    ELSE LET p == (page_offset \div db.page_size) + 1
         IN  IF page_offset % db.page_size = 0 /\ p \in DOMAIN db.pages
             THEN Ok(db.pages[p])
             ELSE Err("can't read page header")

\* a rendering that prints NULL as the empty text
ColumnValue_NullEmpty(column, rowid) ==
    CASE column.tag = "Str" -> column.s
      [] column.tag \in {"I8", "I16", "I24"} -> ToString(column.i)
      [] column.tag = "Zero" -> "0"
      [] column.tag = "One" -> "1"
      [] column.tag = "Null" -> ""

\* the text a column is printed as; NULL prints as the cell's row id
ColumnValue(column, rowid) ==
    CASE column.tag = "Str" -> column.s
      [] column.tag = "I8" -> ToString(column.i)
      [] column.tag = "I16" -> ToString(column.i)
      [] column.tag = "I24" -> ToString(column.i)
      [] column.tag = "Zero" -> "0"
      [] column.tag = "One" -> "1"
      [] column.tag = "Null" -> ToString(rowid)

\* vec![String::from(""); n]
EmptyRow(n) == [k \in 1..n |-> ""]

(***************************************************************************)
(* db.rs: the table scan                                                   *)
(***************************************************************************)
\* the loop over table_info.column_orders.keys() for one cell: evaluates the WHERE
\* test and writes the selected columns into row
RECURSIVE LeafColumnsLoop(_, _, _, _, _, _)
LeafColumnsLoop(column_orders, k, cell, query, row, write_row) ==
    IF k > Len(column_orders) THEN [panic |-> FALSE, row |-> row, write_row |-> write_row]
    ELSE LET column_name == column_orders[k].name
             order == column_orders[k].order
         IN  IF order >= Len(cell.columns)
             THEN [panic |-> TRUE, row |-> row, write_row |-> write_row]
             ELSE LET column_value == ColumnValue(cell.columns[order + 1], cell.rowid)
                      w == \/ write_row
                           \/ /\ query.where_column = Some(column_name)
                              /\ query.where_value = Some(column_value)
                  IN  IF column_name \in DOMAIN query.columns
                      THEN IF query.columns[column_name] >= Len(row)
                           THEN [panic |-> TRUE, row |-> row, write_row |-> w]
                           ELSE LeafColumnsLoop(column_orders, k + 1, cell, query,
                                    [row EXCEPT ![query.columns[column_name] + 1] = column_value],
                                    w)
                      ELSE LeafColumnsLoop(column_orders, k + 1, cell, query, row, w)

\* a loop over leaf_page.cells that keeps every row, whatever the WHERE clause
RECURSIVE LeafCellsLoop_NoFilter(_, _, _, _, _)
LeafCellsLoop_NoFilter(cells, k, query, table_info, result) ==
    IF k > Len(cells) THEN Ok(result)
    ELSE LET r == LeafColumnsLoop(table_info.column_orders, 1, cells[k], query,
                      EmptyRow(Cardinality(DOMAIN query.columns)), TRUE)
         IN  IF r.panic THEN Panic("index out of bounds")
             ELSE LeafCellsLoop_NoFilter(cells, k + 1, query, table_info,
                                         Append(result, r.row))

\* the loop over leaf_page.cells
RECURSIVE LeafCellsLoop(_, _, _, _, _)
LeafCellsLoop(cells, k, query, table_info, result) ==
    IF k > Len(cells) THEN Ok(result)
    ELSE LET r == LeafColumnsLoop(table_info.column_orders, 1, cells[k], query,
                      EmptyRow(Cardinality(DOMAIN query.columns)),
                      ~query.where_column.some)
         IN  IF r.panic THEN Panic("index out of bounds")
             ELSE LeafCellsLoop(cells, k + 1, query, table_info,
                      IF r.write_row THEN Append(result, r.row) ELSE result)

query_leaf_page(leaf_page, query, table_info) ==
    LeafCellsLoop(leaf_page.cells, 1, query, table_info, <<>>)

RECURSIVE query_interior_page(_, _, _, _)

\* what query_interior_page does with one child page: the rows of a table page,
\* nothing for an index page
QueryChild(db, child, query, table_info) ==
    CASE child.type = "LeafTable" -> query_leaf_page(child, query, table_info)
      [] child.type = "InteriorTable" -> query_interior_page(db, child, query, table_info)
      [] OTHER -> Ok(<<>>)

\* a loop over interior_page.cells that visits the rightmost child before the
\* left children
RECURSIVE InteriorCellsLoop_RightmostFirst(_, _, _, _, _, _)
InteriorCellsLoop_RightmostFirst(db, interior_page, k, query, table_info, res) ==
    LET child_num == IF k > Len(interior_page.cells)
                     THEN interior_page.rightmost_pointer
                     ELSE interior_page.cells[k].left_child_page_num
        child == get_page(db, PageOffset(child_num, db.page_size))
    IN  IF child.kind # "Ok" THEN child
        ELSE LET r == QueryChild(db, child.val, query, table_info)
             IN  IF r.kind # "Ok" THEN r
                 ELSE IF k > Len(interior_page.cells) THEN Ok(r.val \o res)
                 ELSE InteriorCellsLoop_RightmostFirst(db, interior_page, k + 1, query,
                                                       table_info, res \o r.val)

\* the loop over interior_page.cells, then the rightmost child
RECURSIVE InteriorCellsLoop(_, _, _, _, _, _)
InteriorCellsLoop(db, interior_page, k, query, table_info, res) ==
    LET child_num == IF k > Len(interior_page.cells)
                     THEN interior_page.rightmost_pointer
                     ELSE interior_page.cells[k].left_child_page_num
        child == get_page(db, PageOffset(child_num, db.page_size))
    IN  IF child.kind # "Ok" THEN child
        ELSE LET r == QueryChild(db, child.val, query, table_info)
             IN  IF r.kind # "Ok" THEN r
                 ELSE IF k > Len(interior_page.cells) THEN Ok(res \o r.val)
                 ELSE InteriorCellsLoop(db, interior_page, k + 1, query, table_info,
                                        res \o r.val)

query_interior_page(db, interior_page, query, table_info) ==
    InteriorCellsLoop(db, interior_page, 1, query, table_info, <<>>)


(***************************************************************************)
(* db.rs: the point lookup                                                 *)
(***************************************************************************)
\* the loop over page.cells of get_row_leaf: the projection of the first cell whose
\* row id is the target, an empty vector when there is none
RECURSIVE GetRowLeafLoop(_, _, _, _, _)
GetRowLeafLoop(cells, k, rowid, table_info, query) ==
    IF k > Len(cells) THEN Ok(<<>>)
    ELSE IF cells[k].rowid = rowid
    THEN LET r == LeafColumnsLoop(table_info.column_orders, 1, cells[k], query,
                      EmptyRow(Cardinality(DOMAIN query.columns)), TRUE)
         IN  IF r.panic THEN Panic("index out of bounds") ELSE Ok(r.row)
    ELSE GetRowLeafLoop(cells, k + 1, rowid, table_info, query)

get_row_leaf(page, rowid, table_info, query) ==
    GetRowLeafLoop(page.cells, 1, rowid, table_info, query)

RECURSIVE get_row(_, _, _, _, _)

\* the loop over page.cells of get_row_interior, entered when last_rowid >= rowid
RECURSIVE GetRowInteriorLoop(_, _, _, _, _, _)
GetRowInteriorLoop(db, page, k, rowid, table_info, query) ==
    IF k > Len(page.cells) THEN Ok(<<>>)
    ELSE IF rowid <= page.cells[k].rowid
    THEN LET child == get_page(db, PageOffset(page.cells[k].left_child_page_num, db.page_size))
         IN  IF child.kind # "Ok" THEN child
             ELSE get_row(db, child.val, rowid, table_info, query)
    ELSE GetRowInteriorLoop(db, page, k + 1, rowid, table_info, query)

get_row_interior(db, page, rowid, table_info, query) ==
    IF page.cells = <<>> THEN Panic("called Option::unwrap() on a None value")
    ELSE LET last_rowid == page.cells[Len(page.cells)].rowid
         IN  IF last_rowid >= rowid
             THEN GetRowInteriorLoop(db, page, 1, rowid, table_info, query)
             ELSE LET child == get_page(db, PageOffset(page.rightmost_pointer, db.page_size))
                  IN  IF child.kind # "Ok" THEN child
                      ELSE get_row(db, child.val, rowid, table_info, query)

get_row(db, page, rowid, table_info, query) ==
    CASE page.type = "LeafTable" -> get_row_leaf(page, rowid, table_info, query)
      [] page.type = "InteriorTable" -> get_row_interior(db, page, rowid, table_info, query)
      [] OTHER -> Panic("can't get row from an index page")

(***************************************************************************)
(* db.rs: the index lookup                                                 *)
(***************************************************************************)
\* Column's equality and order, on the text keys the model's index files hold
ColumnEq(a, b) == a = b
ColumnLe(a, b) == TextRank(a.s) <= TextRank(b.s)

\* the row id of an index cell's last column
RowidOf(column) ==
    IF column.tag \in {"I8", "I16", "I24"} THEN Ok(column.i) ELSE Panic("rowid is not int")

\* the checks both index page kinds make on their first cell before the lookup
FirstCellCheck(page) ==
    IF page.cells = <<>> THEN Panic("page has no cells")
    ELSE IF page.cells[1].columns = <<>> THEN Panic("no keys in idx")
    ELSE IF Len(page.cells[1].columns) # 2 THEN Panic("more than one key in index")
    ELSE Ok(<<>>)

\* the checks made on each cell
CellCheck(cell) ==
    IF cell.columns = <<>> THEN Panic("no keys in cell")
    ELSE IF Len(cell.columns) # 2 THEN Panic("more than one key in index")
    ELSE Ok(<<>>)

\* the loop over page.cells of query_leaf_idx
RECURSIVE LeafIdxLoop(_, _, _, _)
LeafIdxLoop(cells, k, looking_for, res) ==
    IF k > Len(cells) THEN Ok(res)
    ELSE IF CellCheck(cells[k]).kind # "Ok" THEN CellCheck(cells[k])
    ELSE IF ColumnEq(cells[k].columns[1], Str(looking_for))
    THEN LET rowid == RowidOf(cells[k].columns[Len(cells[k].columns)])
         IN  IF rowid.kind # "Ok" THEN rowid
             ELSE LeafIdxLoop(cells, k + 1, looking_for, Append(res, rowid.val))
    ELSE LeafIdxLoop(cells, k + 1, looking_for, res)

query_leaf_idx(page, looking_for) ==
    IF FirstCellCheck(page).kind # "Ok" THEN FirstCellCheck(page)
    ELSE LeafIdxLoop(page.cells, 1, looking_for, <<>>)

RECURSIVE query_interior_idx(_, _, _)

\* _query_idx: dispatch on the page variant
QueryIdxPage(db, root_page, looking_for) ==
    CASE root_page.type = "LeafTable" -> Panic("index root page is LeafTablePage")
      [] root_page.type = "InteriorTable" -> Panic("index root page is InteriorTablePage")
      [] root_page.type = "LeafIndex" -> query_leaf_idx(root_page, looking_for)
      [] root_page.type = "InteriorIdx" -> query_interior_idx(db, root_page, looking_for)

\* the loop over page.cells of query_interior_idx, taken when the needle is within
\* the keys of the first and the last cell: the cell's own row id when its key is the
\* needle, then whatever its left child yields
RECURSIVE InteriorIdxLoop(_, _, _, _, _)
InteriorIdxLoop(db, cells, k, looking_for, res) ==
    IF k > Len(cells) THEN Ok(res)
    ELSE IF CellCheck(cells[k]).kind # "Ok" THEN CellCheck(cells[k])
    ELSE LET is_key == ColumnEq(cells[k].columns[1], Str(looking_for))
             rowid == IF is_key THEN RowidOf(cells[k].columns[Len(cells[k].columns)])
                      ELSE Ok(0)
             res1 == IF is_key THEN Append(res, rowid.val) ELSE res
             child_page == get_page(db, PageOffset(cells[k].left_child_page_num, db.page_size))
         IN  IF rowid.kind # "Ok" THEN rowid
             ELSE IF child_page.kind # "Ok" THEN child_page
             ELSE LET from_children == QueryIdxPage(db, child_page.val, looking_for)
                  IN  IF from_children.kind # "Ok" THEN from_children
                      ELSE InteriorIdxLoop(db, cells, k + 1, looking_for,
                                           res1 \o from_children.val)

\* the range test deciding between the cells and the rightmost child
InKeyRange(page, looking_for) ==
    /\ ColumnLe(page.cells[1].columns[1], Str(looking_for))
    /\ ColumnLe(Str(looking_for), page.cells[Len(page.cells)].columns[1])

query_interior_idx(db, page, looking_for) ==
    IF FirstCellCheck(page).kind # "Ok" THEN FirstCellCheck(page)
    ELSE IF InKeyRange(page, looking_for)
    THEN InteriorIdxLoop(db, page.cells, 1, looking_for, <<>>)
    ELSE LET rightmost_page == get_page(db, PageOffset(page.rightmost_pointer, db.page_size))
         IN  IF rightmost_page.kind # "Ok"
             THEN MapErr(rightmost_page, "can't get rightmost page")
             ELSE QueryIdxPage(db, rightmost_page.val, looking_for)

query_idx(db, table_name, looking_for) ==
    IF table_name \notin DOMAIN db.idx_infos THEN Err("no index for table")
    ELSE LET root_page == get_page(db, PageOffset(db.idx_infos[table_name].root_page_num,
                                                  db.page_size))
         IN  IF root_page.kind # "Ok" THEN root_page
             ELSE QueryIdxPage(db, root_page.val, looking_for)


(***************************************************************************)
(* db.rs: execute_select                                                   *)
(***************************************************************************)
\* the loop over the row ids the index delivered: one get_row each, empty rows dropped
RECURSIVE RowidsLoop(_, _, _, _, _, _, _)
RowidsLoop(db, root_page, rowids, k, table_info, query, res) ==
    IF k > Len(rowids) THEN Ok(res)
    ELSE LET r == get_row(db, root_page, rowids[k], table_info, query)
         IN  IF r.kind # "Ok" THEN r
             ELSE RowidsLoop(db, root_page, rowids, k + 1, table_info, query,
                             IF r.val # <<>> THEN Append(res, r.val) ELSE res)

\* the branch taken when idx_infos has an entry for the table
IndexPlan(db, query) ==
    IF query.table_name \notin DOMAIN db.table_infos
    THEN Panic("called Option::unwrap() on a None value")
    ELSE IF ~query.where_value.some
    THEN Panic("called Option::unwrap() on a None value")
    ELSE LET table_info == db.table_infos[query.table_name]
             rowids == query_idx(db, query.table_name, query.where_value.v)
         IN  IF rowids.kind # "Ok" THEN rowids
             ELSE LET root_page == get_page(db, PageOffset(table_info.root_page_num,
                                                           db.page_size))
                  IN  IF root_page.kind # "Ok" THEN root_page
                      ELSE RowidsLoop(db, root_page.val, rowids.val, 1, table_info, query, <<>>)

\* the branch taken otherwise
ScanPlan(db, query) ==
    IF query.table_name \notin DOMAIN db.table_infos THEN Err("no such table")
    ELSE LET table_info == db.table_infos[query.table_name]
             page == get_page(db, PageOffset(table_info.root_page_num, db.page_size))
         IN  IF page.kind # "Ok" THEN page
             ELSE CASE page.val.type = "LeafTable" ->
                         query_leaf_page(page.val, query, table_info)
                    [] page.val.type = "InteriorTable" ->
                         query_interior_page(db, page.val, query, table_info)
                    [] OTHER -> Panic("not yet implemented")

\* the test execute_select makes to choose the plan
UsesIndex(db, query) == query.table_name \in DOMAIN db.idx_infos

execute_select(db, query) ==
    IF UsesIndex(db, query) THEN IndexPlan(db, query) ELSE ScanPlan(db, query)

(***************************************************************************)
(* main.rs: the branch for "select count"; the value is the lines printed  *)
(***************************************************************************)
select_count(db, queried_table_name) ==
    IF queried_table_name \notin DOMAIN db.table_infos THEN Ok(<<>>)
    ELSE LET page == get_page(db, PageOffset(db.table_infos[queried_table_name].root_page_num,
                                             db.page_size))
         IN  IF page.kind # "Ok" THEN page
             ELSE IF page.val.type = "LeafTable" THEN Ok(<< Len(page.val.cells) >>)
             ELSE Panic("not yet implemented")

(***************************************************************************)
(* The engine: a process opens one file and runs one command on it.        *)
(***************************************************************************)
\* the SELECT lists, tables and WHERE clauses of the commands
SelectLists ==
    { <<"id", "name", "country">>, <<"country", "name">>, <<"name">>,
      <<"name", "name">>, <<"name", "name", "code">> }

QueriedTables == {TableName, "oranges"}

Conditions ==
    { NoCondition, Condition("country", "chad"), Condition("country", "eritrea"),
      Condition("country", "mongolia"), Condition("name", "bee"), Condition("id", "2") }

Needles == {"chad", "eritrea", "mongolia"}

NoArg == [column_caps |-> <<>>, table |-> "", condition |-> NoCondition, rowid |-> 0,
          looking_for |-> ""]

Init ==
    /\ engine \in Databases
    /\ op = "none"
    /\ arg = NoArg
    /\ out = Ok(<<>>)
    /\ bytes = <<>>
    /\ encoded_v = NoValue
    /\ varint_pc = "idle"
    /\ varint_out = [panic |-> FALSE, value |-> I64Zero, consumed |-> 0]

\* main: a SELECT that is not a count
ExecuteSelect ==
    /\ op = "none"
    /\ \E column_caps \in SelectLists, table \in QueriedTables, condition \in Conditions :
          /\ arg' = [NoArg EXCEPT !.column_caps = column_caps, !.table = table,
                                  !.condition = condition]
          /\ out' = execute_select(engine, from_query_string(column_caps, table, condition))
    /\ op' = "select"
    /\ UNCHANGED <<engine, varint_vars>>

\* main: SELECT COUNT(*) FROM table
SelectCount ==
    /\ op = "none"
    /\ \E table \in QueriedTables :
          /\ arg' = [NoArg EXCEPT !.table = table]
          /\ out' = select_count(engine, table)
    /\ op' = "count"
    /\ UNCHANGED <<engine, varint_vars>>

\* Db::query_idx, the index lookup on its own
QueryIdx ==
    /\ op = "none"
    /\ \E looking_for \in Needles :
          /\ arg' = [NoArg EXCEPT !.table = TableName, !.looking_for = looking_for]
          /\ out' = query_idx(engine, TableName, looking_for)
    /\ op' = "query_idx"
    /\ UNCHANGED <<engine, varint_vars>>

\* Db::get_row on the table's root page, the point lookup on its own
GetRow ==
    /\ op = "none"
    /\ \E rowid \in 0..(MaxRows + 2) :
          LET query == from_query_string(<<"id", "name", "country">>, TableName, NoCondition)
              table_info == engine.table_infos[TableName]
              root_page == get_page(engine, PageOffset(table_info.root_page_num, engine.page_size))
          IN  /\ arg' = [NoArg EXCEPT !.table = TableName, !.rowid = rowid,
                                      !.column_caps = <<"id", "name", "country">>]
              /\ out' = IF root_page.kind # "Ok" THEN root_page
                        ELSE get_row(engine, root_page.val, rowid, table_info, query)
    /\ op' = "get_row"
    /\ UNCHANGED <<engine, varint_vars>>

Next == ExecuteSelect \/ SelectCount \/ QueryIdx \/ GetRow

Spec == Init /\ [][Next]_vars


(***************************************************************************)
(* Claims about the traversals and the executor.  The expected answers are *)
(* computed from the logical content the file was written from (its rows,  *)
(* its index entries), not from the pages.                                 *)
(***************************************************************************)
TableColumns == {"id", "name", "country"}

\* the text of a column of a logical row
LogicalValue(r, c) ==
    CASE c = "id" -> ToString(r.rowid)
      [] c = "name" -> NameOf(r.rowid)
      [] c = "country" -> r.country

NoDuplicates(list) == \A i, j \in 1..Len(list) : list[i] = list[j] => i = j

HasIndex == TableName \in DOMAIN engine.idx_infos

SeqToSet(q) == { q[k] : k \in 1..Len(q) }

\* the integer an index entry's trailing column stores
StoredInt(column) ==
    IF column.tag = "Zero" THEN 0 ELSE IF column.tag = "One" THEN 1 ELSE column.i

\* the row ids of the leaf index cells whose key is k
LeafMatches(k) ==
    { StoredInt(engine.pages[p].cells[c].columns[2]) :
        <<p, c>> \in { <<p, c>> \in (DOMAIN engine.pages) \X (1..(MaxRows + 1)) :
                          /\ engine.pages[p].type = "LeafIndex"
                          /\ c <= Len(engine.pages[p].cells)
                          /\ engine.pages[p].cells[c].columns[1] = Str(k) } }

\* the row ids of all the index's entries whose key is k
EntryMatches(k) ==
    { engine.entries[n].rowid : n \in { n \in 1..Len(engine.entries) :
                                          engine.entries[n].country = k } }

\* C1: the row ids find_rowids (query_idx) returns for a needle are those of the
\* index entries whose key is the needle: the row id of every leaf index cell with
\* that key is returned (the range check on interior pages misses none), and no row
\* id is returned that the index does not hold under that key.
C1_IndexCompleteness ==
    (op = "query_idx" /\ out.kind = "Ok") =>
        /\ LeafMatches(arg.looking_for) \subseteq SeqToSet(out.val)
        /\ SeqToSet(out.val) \subseteq EntryMatches(arg.looking_for)

\* the WHERE column is covered by an index of the table
Covered ==
    /\ arg.table \in DOMAIN engine.idx_infos
    /\ arg.condition.present
    /\ arg.condition.column \in engine.idx_infos[arg.table].columns

\* C2: whenever the table has no index, or the query has no WHERE clause, or its
\* WHERE column is not covered by the index, execute_select answers with the scan
\* plan's result.
C2_ScanPlanUnlessCovered ==
    (op = "select" /\ ~Covered) =>
        out = ScanPlan(engine, from_query_string(arg.column_caps, arg.table, arg.condition))

\* the logical rows a condition selects, in row id order
Matching(condition) ==
    SelectSeq(engine.rows,
              LAMBDA r : \/ ~condition.present
                         \/ /\ condition.column \in TableColumns
                            /\ LogicalValue(r, condition.column) = condition.value)

C4_OneFieldPerSelectedColumn ==
    (op = "select" /\ arg.table = TableName /\ out.kind = "Ok") =>
        \A k \in 1..Len(out.val) :
            /\ Len(out.val[k]) = Len(arg.column_caps)
            /\ \E n \in 1..Len(engine.rows) : \A i \in 1..Len(arg.column_caps) :
                  arg.column_caps[i] \in TableColumns =>
                      out.val[k][i] = LogicalValue(engine.rows[n], arg.column_caps[i])

\* C5: SELECT COUNT on the table prints the number of its rows: the number of cells
\* of the root page when the root is a leaf (0 for an empty table), the number of
\* leaf cells under the root when the root is an interior page.
C5_CountIsNumberOfRows ==
    (op = "count" /\ arg.table = TableName) => out = Ok(<< Len(engine.rows) >>)

\* the leaf cells under page p, the children taken in the order the claim gives:
\* for each cell in array order its left child, then the rightmost child
RECURSIVE InOrderCells(_, _)
InOrderCells(pages, p) ==
    IF pages[p].type = "LeafTable" THEN pages[p].cells
    ELSE LET RECURSIVE Lefts(_)
             Lefts(k) == IF k > Len(pages[p].cells) THEN <<>>
                         ELSE InOrderCells(pages, pages[p].cells[k].left_child_page_num)
                              \o Lefts(k + 1)
         IN  Lefts(1) \o InOrderCells(pages, pages[p].rightmost_pointer)

\* the number of cells of all the file's leaf-table pages
RECURSIVE LeafCellCount(_, _)
LeafCellCount(pages, ps) ==
    IF ps = {} THEN 0
    ELSE LET p == CHOOSE x \in ps : TRUE
         IN  (IF pages[p].type = "LeafTable" THEN Len(pages[p].cells) ELSE 0)
             + LeafCellCount(pages, ps \ {p})

\* C9: a scan (no index, no WHERE clause) returns one row per leaf-table cell under
\* the root, in the order of the in-order walk: every cell once, none twice.
C9_ScanVisitsLeafCellsInOrder ==
    (op = "select" /\ arg.table = TableName /\ ~HasIndex /\ ~arg.condition.present
        /\ arg.column_caps = <<"id", "name", "country">>) =>
        LET walk == InOrderCells(engine.pages, TableRoot) IN
        /\ out.kind = "Ok"
        /\ Len(out.val) = Len(walk)
        /\ Len(out.val) = LeafCellCount(engine.pages, DOMAIN engine.pages)
        /\ \A k \in 1..Len(walk) :
              /\ out.val[k][1] = ToString(walk[k].rowid)
              /\ out.val[k][2] = walk[k].columns[2].s
        /\ \A j, k \in 1..Len(out.val) : j < k => out.val[j][1] # out.val[k][1]

\* a scan of a three-level tree of three leaves
C9_Witness ==
    /\ op = "select" /\ arg.table = TableName /\ ~HasIndex /\ ~arg.condition.present
    /\ arg.column_caps = <<"id", "name", "country">>
    /\ engine.pages[TableRoot].type = "InteriorTable"
    /\ engine.pages[engine.pages[TableRoot].rightmost_pointer].type = "InteriorTable"
    /\ engine.pages[engine.pages[TableRoot].rightmost_pointer].cells # <<>>
    /\ out.kind = "Ok" /\ Len(out.val) = 3

\* the root of the table is an interior page with no cell, its only child the
\* rightmost child
ZeroCellRoot ==
    /\ engine.pages[TableRoot].type = "InteriorTable"
    /\ engine.pages[TableRoot].cells = <<>>

\* C10: when the table's root is an interior page with zero cells, the scan returns
\* the rows of the rightmost child and the point lookup returns the row with the
\* target row id (nothing when there is none): both descend into the rightmost
\* child, neither fails.
C10_ZeroCellInteriorTraversed ==
    ZeroCellRoot =>
        /\ (op = "select" /\ arg.table = TableName /\ ~HasIndex
              /\ NoDuplicates(arg.column_caps)) =>
                 out.kind = "Ok" /\ Len(out.val) = Len(Matching(arg.condition))
        /\ op = "get_row" =>
              /\ out.kind = "Ok"
              /\ \A n \in 1..Len(engine.rows) :
                    engine.rows[n].rowid = arg.rowid =>
                        out.val = << ToString(arg.rowid), NameOf(arg.rowid),
                                     engine.rows[n].country >>
              /\ (\A n \in 1..Len(engine.rows) : engine.rows[n].rowid # arg.rowid) =>
                    out.val = <<>>


(***************************************************************************)
(* Claims about the index lookup and the point lookup, page by page.       *)
(***************************************************************************)
\* the entries (key, row id columns) of the index tree under page p in in-order:
\* a cell's left subtree, then the cell's own entry; the rightmost subtree last
RECURSIVE IdxInOrder(_, _)
IdxInOrder(pages, p) ==
    IF pages[p].type = "LeafIndex"
    THEN [k \in 1..Len(pages[p].cells) |-> pages[p].cells[k].columns]
    ELSE LET RECURSIVE Cs(_)
             Cs(k) == IF k > Len(pages[p].cells) THEN <<>>
                      ELSE IdxInOrder(pages, pages[p].cells[k].left_child_page_num)
                           \o << pages[p].cells[k].columns >> \o Cs(k + 1)
         IN  Cs(1) \o IdxInOrder(pages, pages[p].rightmost_pointer)

\* the row ids of the entries with key k, in in-order
InOrderMatches(k) ==
    LET es == SelectSeq(IdxInOrder(engine.pages, engine.idx_infos[TableName].root_page_num),
                        LAMBDA e : e[1] = Str(k))
    IN  [n \in 1..Len(es) |-> StoredInt(es[n][2])]

\* a can be obtained from b by leaving elements out
RECURSIVE IsSubseq(_, _)
IsSubseq(a, b) ==
    IF a = <<>> THEN TRUE
    ELSE IF b = <<>> THEN FALSE
    ELSE IF Head(a) = Head(b) THEN IsSubseq(Tail(a), Tail(b))
    ELSE IsSubseq(a, Tail(b))

\* C11: the row ids find_rowids (query_idx) returns stand in the order of the in-order
\* traversal of the index tree (a cell's left subtree before the cell's own entry, the
\* rightmost subtree last), none more often than the index holds it.
C11_RowidsInTraversalOrder ==
    (op = "query_idx" /\ out.kind = "Ok") =>
        IsSubseq(out.val, InOrderMatches(arg.looking_for))

RowidsOfTable == { engine.rows[n].rowid : n \in 1..Len(engine.rows) }

RowOf(rowid) == engine.rows[CHOOSE n \in 1..Len(engine.rows) : engine.rows[n].rowid = rowid]

\* C12: the point lookup of a row id the table does not hold returns an empty
\* projection and no error, and the index plan emits exactly one row for every
\* delivered row id the table holds, in the order the index delivered them.
C12_AbsentRowidsYieldNoRow ==
    /\ (op = "get_row" /\ arg.rowid \notin RowidsOfTable) => out = Ok(<<>>)
    /\ (op = "select" /\ arg.table = TableName /\ HasIndex /\ arg.condition.present
          /\ NoDuplicates(arg.column_caps)) =>
          LET delivered == query_idx(engine, TableName, arg.condition.value)
              found == SelectSeq(delivered.val, LAMBDA r : r \in RowidsOfTable)
          IN  delivered.kind = "Ok" =>
                 /\ out.kind = "Ok"
                 /\ out.val = [k \in 1..Len(found) |->
                                 [i \in 1..Len(arg.column_caps) |->
                                     LogicalValue(RowOf(found[k]), arg.column_caps[i])]]

InteriorTablePages == { p \in DOMAIN engine.pages : engine.pages[p].type = "InteriorTable" }

\* the child the descent rule names: the left child of the first cell whose row id is
\* at least the target, the rightmost child when there is no such cell
ChildFor(page, target) ==
    LET S == { k \in 1..Len(page.cells) : page.cells[k].rowid >= target }
    IN  IF S = {} THEN page.rightmost_pointer
        ELSE page.cells[CHOOSE k \in S : \A j \in S : k <= j].left_child_page_num

\* C17: on every interior table page, find_row (get_row_interior) gives what find_row
\* gives on the left child of the first cell whose row id is at least the target, and
\* what it gives on the rightmost child when no cell has such a row id.
C17_DescendsByFirstCellAtLeastTarget ==
    op = "get_row" =>
        \A p \in InteriorTablePages :
            LET query == from_query_string(arg.column_caps, TableName, NoCondition)
                table_info == engine.table_infos[TableName]
            IN  get_row_interior(engine, engine.pages[p], arg.rowid, table_info, query)
                = get_row(engine, engine.pages[ChildFor(engine.pages[p], arg.rowid)],
                          arg.rowid, table_info, query)

InteriorIdxPages == { p \in DOMAIN engine.pages : engine.pages[p].type = "InteriorIdx" }

LeafIdxPages == { p \in DOMAIN engine.pages : engine.pages[p].type = "LeafIndex" }

\* the row ids of the leaf's cells with key k, in cell order
LeafRowids(page, k) ==
    LET cs == SelectSeq(page.cells, LAMBDA c : c.columns[1] = Str(k))
    IN  [n \in 1..Len(cs) |-> StoredInt(cs[n].columns[2])]

\* what the rule of C18 yields on the cells from k on: the cell's own row id when its
\* key is the needle, then the lookup in its left child
RECURSIVE CellsRule(_, _, _)
CellsRule(page, k, needle) ==
    IF k > Len(page.cells) THEN <<>>
    ELSE (IF page.cells[k].columns[1] = Str(needle)
          THEN << StoredInt(page.cells[k].columns[2]) >> ELSE <<>>)
         \o QueryIdxPage(engine, engine.pages[page.cells[k].left_child_page_num], needle).val
         \o CellsRule(page, k + 1, needle)

\* C18: on every interior index page, a needle within [first cell's key, last cell's
\* key] yields, cell by cell in array order, the cell's trailing row id when its key
\* is the needle followed by the lookup in its left child, and nothing of the
\* rightmost child; any other needle yields the lookup in the rightmost child alone.
C18_InteriorIndexRule ==
    op = "query_idx" =>
        \A p \in InteriorIdxPages :
            LET page == engine.pages[p]
                keys == [k \in 1..Len(page.cells) |-> TextRank(page.cells[k].columns[1].s)]
                needle == TextRank(arg.looking_for)
            IN  query_interior_idx(engine, page, arg.looking_for)
                = IF keys[1] <= needle /\ needle <= keys[Len(keys)]
                  THEN Ok(CellsRule(page, 1, arg.looking_for))
                  ELSE QueryIdxPage(engine, engine.pages[page.rightmost_pointer],
                                    arg.looking_for)

\* C19: on every index leaf with cells, the lookup returns the integer of the trailing
\* column of every cell whose key is the needle, whichever variant stores it, the
\* sentinels Zero and One included; it does not fail.
C19_RowidOfAnyIntegerVariant ==
    op = "query_idx" =>
        \A p \in LeafIdxPages :
            engine.pages[p].cells # <<>> =>
                query_leaf_idx(engine.pages[p], arg.looking_for)
                = Ok(LeafRowids(engine.pages[p], arg.looking_for))


(***************************************************************************)
(* The projection of leaf cells on its own: one leaf page of a table       *)
(* items(id integer primary key, val), whose val column holds a value of   *)
(* every variant, projected by the scan (query_leaf_page) and by the point *)
(* lookup (get_row_leaf).                                                  *)
(***************************************************************************)
RenderValues ==
    { Str("ant"), Str(""), I8(7), I8(-5), I16(300), I16(-300), I24(70000), Zero, One }

RenderRowids == { <<1>>, <<2>>, <<300>>, <<1, 2>>, <<2, 300>>, <<1, 300>> }

\* the leaf pages: one or two cells, the primary key stored as NULL
RenderPages ==
    UNION { { LeafTablePage([k \in 1..Len(ids) |-> LeafTableCell(ids[k], <<Null, v[k]>>)]) :
                v \in [1..Len(ids) -> RenderValues] } :
            ids \in RenderRowids }

RenderTableInfo ==
    [root_page_num |-> TableRoot,
     column_orders |-> << [name |-> "id", order |-> 0], [name |-> "val", order |-> 1] >>]

RenderLists == { <<"id", "val">>, <<"val", "id">>, <<"val">> }

RenderInit ==
    /\ engine \in { [page |-> pg, table_info |-> RenderTableInfo] : pg \in RenderPages }
    /\ op = "none"
    /\ arg = NoArg
    /\ out = Ok(<<>>)
    /\ bytes = <<>>
    /\ encoded_v = NoValue
    /\ varint_pc = "idle"
    /\ varint_out = [panic |-> FALSE, value |-> I64Zero, consumed |-> 0]

\* the scan plan's projection of the page
RenderScan ==
    /\ op = "none"
    /\ \E column_caps \in RenderLists :
          /\ arg' = [NoArg EXCEPT !.column_caps = column_caps, !.table = "items"]
          /\ out' = query_leaf_page(engine.page,
                                    from_query_string(column_caps, "items", NoCondition),
                                    engine.table_info)
    /\ op' = "render_scan"
    /\ UNCHANGED <<engine, varint_vars>>

\* the index plan's projection of one cell of the page
RenderLookup ==
    /\ op = "none"
    /\ \E column_caps \in RenderLists, k \in 1..Len(engine.page.cells) :
          /\ arg' = [NoArg EXCEPT !.column_caps = column_caps, !.table = "items",
                                  !.rowid = engine.page.cells[k].rowid]
          /\ out' = get_row_leaf(engine.page, engine.page.cells[k].rowid, engine.table_info,
                                 from_query_string(column_caps, "items", NoCondition))
    /\ op' = "render_lookup"
    /\ UNCHANGED <<engine, varint_vars>>

RenderNext == RenderScan \/ RenderLookup

SpecRender == RenderInit /\ [][RenderNext]_vars

\* the decimal digits of a natural number
RECURSIVE Digits(_)
Digits(n) ==
    LET d == <<"0", "1", "2", "3", "4", "5", "6", "7", "8", "9">>[(n % 10) + 1]
    IN  IF n < 10 THEN d ELSE Digits(n \div 10) \o d

Decimal(n) == IF n < 0 THEN "-" \o Digits(0 - n) ELSE Digits(n)

\* the text the rendering rule gives the column named c of a cell
Rendered(cell, c) ==
    LET column == IF c = "id" THEN cell.columns[1] ELSE cell.columns[2]
    IN  CASE column.tag = "Null" -> Decimal(cell.rowid)
          [] column.tag = "Zero" -> "0"
          [] column.tag = "One" -> "1"
          [] column.tag = "Str" -> column.s
          [] OTHER -> Decimal(column.i)

RenderedRow(cell, list) == [i \in 1..Len(list) |-> Rendered(cell, list[i])]

\* C13: the projection of a leaf cell renders the NULL stored in the integer primary
\* key column as the decimal form of the cell's row id, Zero and One as "0" and "1",
\* I8, I16 and I24 values as their decimal form and text as its content, and the scan
\* and the point lookup render a cell alike.
C13_RenderingOfValues ==
    /\ op = "render_scan" =>
          out = Ok([k \in 1..Len(engine.page.cells) |->
                      RenderedRow(engine.page.cells[k], arg.column_caps)])
    /\ op = "render_lookup" =>
          \E k \in 1..Len(engine.page.cells) :
              /\ engine.page.cells[k].rowid = arg.rowid
              /\ out = Ok(RenderedRow(engine.page.cells[k], arg.column_caps))
              /\ out.val = query_leaf_page(engine.page,
                               from_query_string(arg.column_caps, "items", NoCondition),
                               engine.table_info).val[k]

\* the point lookup of the cell with row id 300 whose val is the 2-byte integer -300
C13_Witness ==
    /\ op = "render_lookup"
    /\ arg.column_caps = <<"id", "val">>
    /\ arg.rowid = 300
    /\ out = Ok(<<"300", "-300">>)


(***************************************************************************)
(* The catalog loader on its own: get_first_page over the decoded cells of *)
(* the schema page.  The regular expressions of query.rs are modelled by   *)
(* what they capture from the CREATE statements of the model's files.      *)
(***************************************************************************)
CreateTableSql(name, columns) ==
    [stmt |-> "CREATE TABLE", idx_name |-> "", table_name |-> name, columns |-> columns]
CreateIdxSql(idx_name, name, columns) ==
    [stmt |-> "CREATE INDEX", idx_name |-> idx_name, table_name |-> name, columns |-> columns]

\* the key order of the BTreeMap of column names
ColumnNameOrder == <<"a", "country", "id", "name", "val">>

\* CreateTableQuery::from_sql: column name -> position in the column list, a later
\* insert of a name replacing the earlier one; listed in key order
CreateTableQuery_from_sql(sql) ==
    LET names == SelectSeq(ColumnNameOrder,
                           LAMBDA n : \E i \in 1..Len(sql.columns) : sql.columns[i] = n)
    IN  [column_orders |->
            [k \in 1..Len(names) |->
                [name |-> names[k],
                 order |-> (CHOOSE i \in 1..Len(sql.columns) :
                               /\ sql.columns[i] = names[k]
                               /\ \A j \in 1..Len(sql.columns) :
                                     sql.columns[j] = names[k] => j <= i) - 1]]]

\* CreateIdxQuery::from_sql
CreateIdxQuery_from_sql(sql) ==
    [idx_name |-> sql.idx_name, table_name |-> sql.table_name,
     columns |-> { sql.columns[i] : i \in 1..Len(sql.columns) }]

\* the CREATE statements of the model's files
CompaniesSqlText == "CREATE TABLE companies (id integer primary key, name text, country text)"
OrangesSqlText == "CREATE TABLE oranges (id integer primary key, name text, country text)"
CompaniesIdxSqlText == "CREATE INDEX idx_companies_country on companies (country)"
CompaniesNameIdxSqlText == "CREATE INDEX idx_companies_name on companies (name)"
TSqlText == "CREATE TABLE t (a)"
USqlText == "CREATE TABLE u (a)"

\* what the prefix test and the regular expressions capture from a statement
SqlParts(sql) ==
    CASE sql = CompaniesSqlText -> CreateTableSql(TableName, <<"id", "name", "country">>)
      [] sql = OrangesSqlText -> CreateTableSql("oranges", <<"id", "name", "country">>)
      [] sql = CompaniesIdxSqlText -> CreateIdxSql(IdxName, TableName, <<"country">>)
      [] sql = CompaniesNameIdxSqlText ->
            CreateIdxSql("idx_companies_name", TableName, <<"name">>)
      [] sql = TSqlText -> CreateTableSql("t", <<"a">>)
      [] sql = USqlText -> CreateTableSql("u", <<"a">>)
      [] OTHER -> [stmt |-> "", idx_name |-> "", table_name |-> "", columns |-> <<>>]

\* the root page number a schema row's column 3 yields
RootPageNum(root_page_number_col) ==
    CASE root_page_number_col.tag = "I8" -> Ok(root_page_number_col.i)
      [] root_page_number_col.tag = "I24" ->
            IF root_page_number_col.i >= 0 THEN Ok(root_page_number_col.i)
            ELSE Panic("called Result::unwrap() on an Err value")
      [] OTHER -> Err("wrong format of root page column")

\* the loop over the cells of the schema page
RECURSIVE FirstPageLoop(_, _, _, _)
FirstPageLoop(cells, k, table_infos, idx_infos) ==
    IF k > Len(cells) THEN Ok([table_infos |-> table_infos, idx_infos |-> idx_infos])
    ELSE LET columns == cells[k].columns IN
         IF Len(columns) < 3 THEN Err("can't get page name from cell 2")
         ELSE IF columns[3].tag # "Str" THEN Err("wrong format of page name column")
         ELSE IF Len(columns) < 4 THEN Err("can't get root page num from cell 3")
         ELSE LET table_name == columns[3].s
                  root_page_num == RootPageNum(columns[4])
              IN  IF root_page_num.kind # "Ok" THEN root_page_num
                  ELSE IF Len(columns) < 5 THEN Err("can't get sql for table from cell 4")
                  ELSE IF columns[5].tag # "Str" THEN Err("wrong format of sql column")
                  ELSE LET sql == SqlParts(columns[5].s) IN
                       CASE sql.stmt = "CREATE INDEX" ->
                              FirstPageLoop(cells, k + 1, table_infos,
                                  [t \in DOMAIN idx_infos \cup {table_name} |->
                                      IF t = table_name
                                      THEN [root_page_num |-> root_page_num.val,
                                            idx_name |-> CreateIdxQuery_from_sql(sql).idx_name,
                                            columns |-> CreateIdxQuery_from_sql(sql).columns]
                                      ELSE idx_infos[t]])
                         [] sql.stmt = "CREATE TABLE" ->
                              FirstPageLoop(cells, k + 1,
                                  [t \in DOMAIN table_infos \cup {table_name} |->
                                      IF t = table_name
                                      THEN [root_page_num |-> root_page_num.val,
                                            column_orders |->
                                               CreateTableQuery_from_sql(sql).column_orders]
                                      ELSE table_infos[t]],
                                  idx_infos)
                         [] OTHER -> Panic("can't parse create query")

\* get_first_page, from the result of reading page 1
get_first_page(first) ==
    IF first.kind # "Ok" THEN Err("error reading first page from file")
    ELSE IF first.val.type # "LeafTable" THEN Panic("first page is not a leaf table page")
    ELSE FirstPageLoop(first.val.cells, 1, [t \in {} |-> 0], [t \in {} |-> 0])

\* the column the file format stores an integer n >= 2 in: the smallest of the 1-, 2-
\* and 3-byte integers that holds it
RootColumn(n) == IF n <= 127 THEN I8(n) ELSE IF n <= 32767 THEN I16(n) ELSE I24(n)

RootPages == {2, 3, 127, 128, 200, 32767, 32768, 70000}

\* a schema row: type, name, tbl_name, rootpage, sql
SchemaCell(rowid, type, name, tbl_name, rootpage, sql) ==
    LeafTableCell(rowid, << Str(type), Str(name), Str(tbl_name), RootColumn(rootpage),
                            Str(sql) >>)

\* the schemas: the table alone or the table and its index, the table in either of
\* two schema rows when another table precedes it
Schemas ==
    { << [kind |-> "table", tbl_name |-> TableName, rootpage |-> n] >> : n \in RootPages }
    \cup { << [kind |-> "table", tbl_name |-> TableName, rootpage |-> n],
              [kind |-> "index", tbl_name |-> TableName, rootpage |-> m] >> :
           <<n, m>> \in { x \in RootPages \X RootPages : x[1] # x[2] } }
    \cup { << [kind |-> "table", tbl_name |-> "oranges", rootpage |-> n],
              [kind |-> "table", tbl_name |-> TableName, rootpage |-> m] >> :
           <<n, m>> \in { x \in RootPages \X RootPages : x[1] # x[2] } }

SchemaPage(schema) ==
    LeafTablePage([k \in 1..Len(schema) |->
        IF schema[k].kind = "table"
        THEN SchemaCell(k, "table", schema[k].tbl_name, schema[k].tbl_name,
                        schema[k].rootpage,
                        IF schema[k].tbl_name = TableName THEN CompaniesSqlText
                        ELSE OrangesSqlText)
        ELSE SchemaCell(k, "index", IdxName, schema[k].tbl_name, schema[k].rootpage,
                        CompaniesIdxSqlText)])

CatalogInit ==
    /\ engine \in { [schema |-> sc, page |-> SchemaPage(sc)] : sc \in Schemas }
    /\ op = "none"
    /\ arg = NoArg
    /\ out = Ok(<<>>)
    /\ bytes = <<>>
    /\ encoded_v = NoValue
    /\ varint_pc = "idle"
    /\ varint_out = [panic |-> FALSE, value |-> I64Zero, consumed |-> 0]

\* Db::new: the catalog read from page 1
LoadCatalog ==
    /\ op = "none"
    /\ out' = get_first_page(Ok(engine.page))
    /\ op' = "load"
    /\ UNCHANGED <<engine, arg, varint_vars>>

CatalogNext == LoadCatalog

SpecCatalog == CatalogInit /\ [][CatalogNext]_vars

\* C15: for every schema row whose root page number n is stored in column 3 as the
\* 1-, 2- or 3-byte integer holding it, the catalog loader succeeds and records a
\* descriptor, under the row's table name, whose root_page_num is n; root pages
\* 128..32767, stored as 2-byte integers, included.
C15_RootPageNumberRecorded ==
    op = "load" =>
        /\ out.kind = "Ok"
        /\ \A k \in 1..Len(engine.schema) :
              LET row == engine.schema[k] IN
              IF row.kind = "table"
              THEN /\ row.tbl_name \in DOMAIN out.val.table_infos
                   /\ out.val.table_infos[row.tbl_name].root_page_num = row.rootpage
              ELSE /\ row.tbl_name \in DOMAIN out.val.idx_infos
                   /\ out.val.idx_infos[row.tbl_name].root_page_num = row.rootpage


(***************************************************************************)
(* The file as bytes.  A file is its length and the byte strings written   *)
(* into it (segments); every other byte is zero.  Reads are positioned     *)
(* reads of a fixed number of bytes, failing when they pass the end.       *)
(***************************************************************************)
ByteAt(file, o) ==
    IF \E k \in 1..Len(file.segments) :
           file.segments[k].at <= o /\ o < file.segments[k].at + Len(file.segments[k].bytes)
    THEN LET k == CHOOSE j \in 1..Len(file.segments) :
                     file.segments[j].at <= o
                     /\ o < file.segments[j].at + Len(file.segments[j].bytes)
         IN  file.segments[k].bytes[o - file.segments[k].at + 1]
    ELSE 0

\* file.read_exact_at(&mut buf, offset) for a buffer of n bytes
read_exact_at(file, n, offset) ==
    IF offset + n > file.len THEN Err("failed to fill whole buffer")
    ELSE Ok([k \in 1..n |-> ByteAt(file, offset + k - 1)])

\* u16::from_be_bytes, u32::from_be_bytes
U16FromBe(b) == b[1] * 256 + b[2]
U32FromBe(b) == ((b[1] * 256 + b[2]) * 256 + b[3]) * 256 + b[4]

\* the i64 of a varint as a number, for the values below 2^31 the model's files hold
I64ToInt(x) == x[3] * LimbBase + x[4]

\* the varint in a 9-byte buffer: (value, bytes consumed)
VarintAt(buf) ==
    [value |-> I64ToInt(read_varint(buf).value), consumed |-> read_varint(buf).consumed]

(***************************************************************************)
(* db.rs: get_page_header                                                  *)
(***************************************************************************)
\* a page type decoder that takes every unknown byte for a leaf table page
PageTypeOfByte_Lenient(page_type_byte) ==
    CASE page_type_byte = 2 -> "InteriorIdx"
      [] page_type_byte = 5 -> "InteriorTable"
      [] page_type_byte = 10 -> "LeafIndex"
      [] OTHER -> "LeafTable"

PageTypeOfByte(page_type_byte) ==
    CASE page_type_byte = 2 -> "InteriorIdx"
      [] page_type_byte = 5 -> "InteriorTable"
      [] page_type_byte = 10 -> "LeafIndex"
      [] page_type_byte = 13 -> "LeafTable"
      [] OTHER -> "none"

get_page_header(file, offset) ==
    LET page_header == read_exact_at(file, 12, offset)
    IN  IF page_header.kind # "Ok" THEN Err("can't read 8 bytes of page header from file")
        ELSE LET page_type == PageTypeOfByte(page_header.val[1])
             IN  IF page_type = "none" THEN Err("wrong page type byte")
                 ELSE Ok([page_type |-> page_type,
                          num_cells |-> U16FromBe(SubSeq(page_header.val, 4, 5)),
                          rightmost_pointer |->
                              IF page_type \in {"InteriorTable", "InteriorIdx"}
                              THEN U32FromBe(SubSeq(page_header.val, 9, 12))
                              ELSE 0,
                          page_offset |-> offset])

(***************************************************************************)
(* The record decoder.  RecordHeader::from_file and read_columns are not   *)
(* part of the sources at hand; they are modelled from the record layout   *)
(* of the file format: the header size as a varint counting itself, one    *)
(* serial type varint per column, then the column bodies in order.         *)
(***************************************************************************)
\* util.rs get_content_size_type: body size and column type of a serial type
get_content_size_type(input) ==
    CASE input = 0 -> Ok([size |-> 0, type |-> "Null"])
      [] input = 1 -> Ok([size |-> 1, type |-> "I8"])
      [] input = 2 -> Ok([size |-> 2, type |-> "I16"])
      [] input = 3 -> Ok([size |-> 3, type |-> "I24"])
      [] input = 8 -> Ok([size |-> 0, type |-> "Zero"])
      [] input = 9 -> Ok([size |-> 0, type |-> "One"])
      [] input >= 13 /\ input % 2 = 1 -> Ok([size |-> (input - 13) \div 2, type |-> "Str"])
      [] OTHER -> Panic("not yet implemented: column type")

\* the characters of the model's texts, by byte
CharOf(b) ==
    CASE b = 32 -> " " [] b = 40 -> "(" [] b = 41 -> ")"
      [] b = 65 -> "A" [] b = 66 -> "B" [] b = 67 -> "C" [] b = 69 -> "E"
      [] b = 76 -> "L" [] b = 82 -> "R" [] b = 84 -> "T"
      [] b = 97 -> "a" [] b = 98 -> "b" [] b = 101 -> "e" [] b = 108 -> "l"
      [] b = 116 -> "t" [] b = 117 -> "u"
      [] OTHER -> "?"

RECURSIVE Utf8(_)
Utf8(bs) == IF bs = <<>> THEN "" ELSE CharOf(Head(bs)) \o Utf8(Tail(bs))

\* a big-endian two's complement integer of Len(bs) bytes
RECURSIVE Unsigned(_)
Unsigned(bs) == IF bs = <<>> THEN 0 ELSE Unsigned(SubSeq(bs, 1, Len(bs) - 1)) * 256 + bs[Len(bs)]

Signed(bs) ==
    IF bs[1] >= 128 THEN Unsigned(bs) - 2 ^ (8 * Len(bs)) ELSE Unsigned(bs)

DecodeColumn(type, body) ==
    CASE type = "Null" -> Null
      [] type = "Zero" -> Zero
      [] type = "One" -> One
      [] type = "I8" -> I8(Signed(body))
      [] type = "I16" -> I16(Signed(body))
      [] type = "I24" -> I24(Signed(body))
      [] type = "Str" -> Str(Utf8(body))

\* the serial types of a record header of `size` bytes, `consumed` of them read
RECURSIVE SerialTypesLoop(_, _, _, _, _)
SerialTypesLoop(file, offset, size, consumed, column_types) ==
    IF consumed >= size THEN Ok([column_types |-> column_types, consumed |-> consumed])
    ELSE Try(read_exact_at(file, 9, offset + consumed), LAMBDA buf :
             SerialTypesLoop(file, offset, size, consumed + VarintAt(buf).consumed,
                             Append(column_types, VarintAt(buf).value)))

\* RecordHeader::from_file: (serial types, bytes consumed)
RecordHeader_from_file(file, offset) ==
    Try(read_exact_at(file, 9, offset), LAMBDA buf :
        SerialTypesLoop(file, offset, VarintAt(buf).value, VarintAt(buf).consumed, <<>>))

\* read_columns: the loop over the serial types; (columns, bytes consumed)
RECURSIVE ReadColumnsLoop(_, _, _, _, _, _)
ReadColumnsLoop(file, offset, column_types, k, current, columns) ==
    IF k > Len(column_types) THEN Ok([columns |-> columns, consumed |-> current])
    ELSE LET st == get_content_size_type(column_types[k])
         IN  IF st.kind # "Ok" THEN st
             ELSE LET body == read_exact_at(file, st.val.size, offset + current)
                  IN  IF body.kind # "Ok" THEN body
                      ELSE ReadColumnsLoop(file, offset, column_types, k + 1,
                               current + st.val.size,
                               Append(columns, DecodeColumn(st.val.type, body.val)))

read_columns(record_header, file, offset) ==
    ReadColumnsLoop(file, offset, record_header.column_types, 1, 0, <<>>)


(***************************************************************************)
(* db.rs: the four cell decoders and _get_page.  Every decoder receives    *)
(* the cell pointer array and page_offset, and adds page_offset to each    *)
(* pointer before reading the cell.                                        *)
(***************************************************************************)
\* one cell of get_leaf_table_cells, at pointer = the cell pointer + page_offset
LeafTableCellAt(file, pointer) ==
    Try(MapErr(read_exact_at(file, 9, pointer), "can't read cell size"), LAMBDA size :
    Try(MapErr(read_exact_at(file, 9, pointer + VarintAt(size).consumed),
               "can't read cell rowid"), LAMBDA rowid :
    Try(RecordHeader_from_file(file, pointer + VarintAt(size).consumed
                                             + VarintAt(rowid).consumed),
        LAMBDA record_header :
    Try(read_columns(record_header, file,
                     pointer + VarintAt(size).consumed + VarintAt(rowid).consumed
                             + record_header.consumed), LAMBDA columns :
    Ok(LeafTableCell(VarintAt(rowid).value, columns.columns))))))

\* one cell of get_interior_table_cells
TableInteriorCellAt(file, pointer) ==
    Try(MapErr(read_exact_at(file, 4, pointer), "can't read cell size"), LAMBDA left :
    Try(MapErr(read_exact_at(file, 9, pointer + 4), "can't read cell rowid"), LAMBDA rowid :
    Ok(TableInteriorCell(U32FromBe(left), VarintAt(rowid).value))))

\* one cell of get_leaf_idx_cells
IdxLeafCellAt(file, pointer) ==
    Try(MapErr(read_exact_at(file, 9, pointer),
               "can't read number of bytes of payload of leaf idx cell"), LAMBDA payload :
    Try(MapErr(RecordHeader_from_file(file, pointer + VarintAt(payload).consumed),
               "can't read record header of leaf idx page"), LAMBDA record_header :
    Try(MapErr(read_columns(record_header, file,
                            pointer + VarintAt(payload).consumed + record_header.consumed),
               "can't read columns of leaf idx page"), LAMBDA columns :
    Ok(IdxLeafCell(columns.columns)))))

\* one cell of get_interior_idx_cells; after the columns one more varint is read
IdxInteriorCellAt(file, pointer) ==
    Try(MapErr(read_exact_at(file, 4, pointer),
               "can't read page number of left child of interior idx cell"), LAMBDA left :
    Try(MapErr(read_exact_at(file, 9, pointer + 4),
               "can't read number of bytes of payload of interior idx cell"),
        LAMBDA payload :
    Try(RecordHeader_from_file(file, pointer + 4 + VarintAt(payload).consumed),
        LAMBDA record_header :
    Try(read_columns(record_header, file,
                     pointer + 4 + VarintAt(payload).consumed + record_header.consumed),
        LAMBDA columns :
    Try(read_exact_at(file, 9, pointer + 4 + VarintAt(payload).consumed
                                       + record_header.consumed + columns.consumed),
        LAMBDA rowid :
    Ok(IdxInteriorCell(U32FromBe(left), columns.columns)))))))

CellAt(page_type, file, pointer) ==
    CASE page_type = "LeafTable" -> LeafTableCellAt(file, pointer)
      [] page_type = "InteriorTable" -> TableInteriorCellAt(file, pointer)
      [] page_type = "LeafIndex" -> IdxLeafCellAt(file, pointer)
      [] page_type = "InteriorIdx" -> IdxInteriorCellAt(file, pointer)

\* a decoder loop that leaves out a cell it cannot read and goes on with the next
RECURSIVE CellsLoop_SkipUnreadable(_, _, _, _, _, _)
CellsLoop_SkipUnreadable(page_type, cell_pointer_array, k, file, base, cells) ==
    IF k > Len(cell_pointer_array) THEN Ok(cells)
    ELSE CellsLoop_SkipUnreadable(page_type, cell_pointer_array, k + 1, file, base,
             IF CellAt(page_type, file, cell_pointer_array[k] + base).kind = "Ok"
             THEN Append(cells, CellAt(page_type, file, cell_pointer_array[k] + base).val)
             ELSE cells)

\* a decoder's loop over the cell pointer array, every pointer shifted by `base`
RECURSIVE CellsLoop(_, _, _, _, _, _)
CellsLoop(page_type, cell_pointer_array, k, file, base, cells) ==
    IF k > Len(cell_pointer_array) THEN Ok(cells)
    ELSE Try(CellAt(page_type, file, cell_pointer_array[k] + base), LAMBDA cell :
             CellsLoop(page_type, cell_pointer_array, k + 1, file, base,
                       Append(cells, cell)))

\* the four decoders: pointer += page_offset
get_cells(page_type, cell_pointer_array, file, page_offset) ==
    CellsLoop(page_type, cell_pointer_array, 1, file, page_offset, <<>>)

\* the loop of _get_page that reads the cell pointer array
RECURSIVE CellPointerLoop(_, _, _, _, _)
CellPointerLoop(file, cell_offset, i, num_cells, cell_pointer_array) ==
    IF i >= num_cells THEN Ok(cell_pointer_array)
    ELSE Try(MapErr(read_exact_at(file, 2, cell_offset), "can't read cell"), LAMBDA buf :
             CellPointerLoop(file, cell_offset + 2, i + 1, num_cells,
                             Append(cell_pointer_array, U16FromBe(buf))))

\* where the cell pointer array starts: after the 8 or 12 bytes of the page header
PageDataOffset(page_type, page_offset, header_offset) ==
    IF page_type \in {"LeafTable", "LeafIndex"}
    THEN page_offset + header_offset + 8
    ELSE page_offset + header_offset + 12

HeaderOffset(page_header_offset) ==
    IF page_header_offset.some THEN page_header_offset.v ELSE 0

\* a _get_page whose decoders are handed page_offset + page_header_offset
get_page_at_ShiftedCells(file, page_offset, page_header_offset) ==
    Try(MapErr(get_page_header(file, page_offset + HeaderOffset(page_header_offset)),
               "can't read page header from file"), LAMBDA h :
    Try(CellPointerLoop(file,
            PageDataOffset(h.page_type, page_offset, HeaderOffset(page_header_offset)),
            0, h.num_cells, <<>>), LAMBDA cell_pointer_array :
    Try(get_cells(h.page_type, cell_pointer_array, file,
                  page_offset + HeaderOffset(page_header_offset)), LAMBDA cells :
    Ok([type |-> h.page_type, cells |-> cells,
        rightmost_pointer |-> h.rightmost_pointer]))))

\* Db::_get_page(file, page_offset, page_header_offset)
get_page_at(file, page_offset, page_header_offset) ==
    Try(MapErr(get_page_header(file, page_offset + HeaderOffset(page_header_offset)),
               "can't read page header from file"), LAMBDA h :
    Try(CellPointerLoop(file,
            PageDataOffset(h.page_type, page_offset, HeaderOffset(page_header_offset)),
            0, h.num_cells, <<>>), LAMBDA cell_pointer_array :
    Try(get_cells(h.page_type, cell_pointer_array, file, page_offset), LAMBDA cells :
    Ok([type |-> h.page_type, cells |-> cells,
        rightmost_pointer |-> h.rightmost_pointer]))))

\* Db::new: the page size of the file header, then the catalog of page 1
PageSizeField(db_header_bytes) == U16FromBe(SubSeq(db_header_bytes, 17, 18))

Db_new(file) ==
    Try(MapErr(read_exact_at(file, 100, 0), "can't read 100 db header bytes from file"),
        LAMBDA db_header_bytes :
    Try(get_first_page(get_page_at(file, 0, [some |-> TRUE, v |-> 100])),
        LAMBDA first_page :
    Ok([file |-> file,
        page_size |-> PageSizeField(db_header_bytes),
        table_infos |-> first_page.table_infos,
        idx_infos |-> first_page.idx_infos])))


(***************************************************************************)
(* The files of the byte-level model, as the file format's writer lays     *)
(* them out: the 100-byte file header (magic string, page size field at    *)
(* bytes 16..17, the value 1 standing for 65536), page 1 with its page     *)
(* header at byte 100, every later page p at (p - 1) * page size.  A page  *)
(* is its header, the cell pointer array right after it and the cells,     *)
(* each in a slot of its own counted from the end of the page; a pointer   *)
(* is the distance of the cell from the first byte of the page.            *)
(***************************************************************************)
Magic == <<83, 81, 76, 105, 116, 101, 32, 102, 111, 114, 109, 97, 116, 32, 51, 0>>

U16Be(n) == << n \div 256, n % 256 >>
U32Be(n) == << n \div (2 ^ 24), (n \div (2 ^ 16)) % 256, (n \div 256) % 256, n % 256 >>

VarintBytes(n) == encode_varint(<< 0, 0, n \div LimbBase, n % LimbBase >>)

\* the values a writer stores: a text given by its bytes, an integer, NULL
WText(bs) == [w |-> "text", bytes |-> bs, n |-> 0]
WInt(n) == [w |-> "int", bytes |-> <<>>, n |-> n]
WNull == [w |-> "null", bytes |-> <<>>, n |-> 0]

\* the number of body bytes of an integer: none for 0 and 1, else the fewest of 1, 2, 3
IntWidth(n) ==
    IF n \in {0, 1} THEN 0
    ELSE IF n >= -128 /\ n <= 127 THEN 1
    ELSE IF n >= -32768 /\ n <= 32767 THEN 2 ELSE 3

\* big-endian two's complement of n in k bytes
RECURSIVE BeBytes(_, _)
BeBytes(n, k) ==
    IF k = 0 THEN <<>>
    ELSE LET u == IF n < 0 THEN n + 2 ^ (8 * k) ELSE n
         IN  BeBytes(u \div 256, k - 1) \o << u % 256 >>

SerialTypeOf(v) ==
    CASE v.w = "null" -> 0
      [] v.w = "text" -> 13 + 2 * Len(v.bytes)
      [] v.w = "int" -> IF v.n = 0 THEN 8 ELSE IF v.n = 1 THEN 9 ELSE IntWidth(v.n)

BodyOf(v) ==
    CASE v.w = "null" -> <<>>
      [] v.w = "text" -> v.bytes
      [] v.w = "int" -> BeBytes(v.n, IntWidth(v.n))

\* the column a stored value decodes to
ColumnOf(v) ==
    CASE v.w = "null" -> Null
      [] v.w = "text" -> Str(Utf8(v.bytes))
      [] v.w = "int" -> IF v.n = 0 THEN Zero ELSE IF v.n = 1 THEN One
                        ELSE IF IntWidth(v.n) = 1 THEN I8(v.n)
                        ELSE IF IntWidth(v.n) = 2 THEN I16(v.n) ELSE I24(v.n)

RECURSIVE ConcatAll(_)
ConcatAll(ss) == IF ss = <<>> THEN <<>> ELSE Head(ss) \o ConcatAll(Tail(ss))

\* a record: header size (counting itself), the serial types, the bodies
RecordBytes(vs) ==
    VarintBytes(1 + Len(vs))
    \o [k \in 1..Len(vs) |-> SerialTypeOf(vs[k])]
    \o ConcatAll([k \in 1..Len(vs) |-> BodyOf(vs[k])])

ColumnsOf(vs) == [k \in 1..Len(vs) |-> ColumnOf(vs[k])]

\* the cells of the four page kinds: their bytes and what they decode to
WLeafTableCell(rowid, vs) ==
    [bytes |-> VarintBytes(Len(RecordBytes(vs))) \o VarintBytes(rowid) \o RecordBytes(vs),
     cell |-> LeafTableCell(rowid, ColumnsOf(vs))]
WTableInteriorCell(left, rowid) ==
    [bytes |-> U32Be(left) \o VarintBytes(rowid), cell |-> TableInteriorCell(left, rowid)]
WIdxLeafCell(vs) ==
    [bytes |-> VarintBytes(Len(RecordBytes(vs))) \o RecordBytes(vs),
     cell |-> IdxLeafCell(ColumnsOf(vs))]
WIdxInteriorCell(left, vs) ==
    [bytes |-> U32Be(left) \o VarintBytes(Len(RecordBytes(vs))) \o RecordBytes(vs),
     cell |-> IdxInteriorCell(left, ColumnsOf(vs))]

\* the size of the slot a cell is written in
CellSlot == 2 ^ 6

\* a page: its type byte, its cells, its rightmost child (0 on a leaf)
WPage(type_byte, cells, rightmost) ==
    [type_byte |-> type_byte, cells |-> cells, rightmost |-> rightmost]

IsInteriorByte(type_byte) == type_byte \in {2, 5}

\* the page kind the file format gives a type byte
KindOfByte(type_byte) ==
    CASE type_byte = 2 -> "InteriorIdx"
      [] type_byte = 5 -> "InteriorTable"
      [] type_byte = 10 -> "LeafIndex"
      [] type_byte = 13 -> "LeafTable"
      [] OTHER -> "none"

\* the bytes of a page of a file of page size S, written at page_offset with its
\* header header_offset bytes further
PageSegments(pg, page_offset, header_offset, S) ==
    << [at |-> page_offset + header_offset,
        bytes |-> << pg.type_byte, 0, 0 >> \o U16Be(Len(pg.cells))
                  \o U16Be((S - CellSlot * Len(pg.cells)) % (2 ^ 16)) \o << 0 >>
                  \o (IF IsInteriorByte(pg.type_byte) THEN U32Be(pg.rightmost) ELSE <<>>)
                  \o ConcatAll([k \in 1..Len(pg.cells) |-> U16Be(S - CellSlot * k)])] >>
    \o [k \in 1..Len(pg.cells) |->
           [at |-> page_offset + S - CellSlot * k, bytes |-> pg.cells[k].bytes]]

\* the stored page size field
PageSizeFieldOf(S) == IF S = 2 ^ 16 THEN 1 ELSE S

\* a file of page size S holding the pages pgs
MakeFile(S, pgs) ==
    [len |-> S * Len(pgs),
     segments |-> << [at |-> 0, bytes |-> Magic \o U16Be(PageSizeFieldOf(S))] >>
                  \o ConcatAll([p \in 1..Len(pgs) |->
                        PageSegments(pgs[p], (p - 1) * S, IF p = 1 THEN 100 ELSE 0, S)])]

\* the texts of the byte-level files
TextTable == <<116, 97, 98, 108, 101>>
TextT == <<116>>
TextU == <<117>>
TextBee == <<98, 101, 101>>
TextCreateT == <<67, 82, 69, 65, 84, 69, 32, 84, 65, 66, 76, 69, 32, 116, 32, 40, 97, 41>>
TextCreateU == <<67, 82, 69, 65, 84, 69, 32, 84, 65, 66, 76, 69, 32, 117, 32, 40, 97, 41>>

\* page 1: the schema rows of no, one or two tables
FirstPages ==
    { WPage(13, cs, 0) :
        cs \in { <<>>,
                 << WLeafTableCell(1, <<WText(TextTable), WText(TextT), WText(TextT),
                                        WInt(2), WText(TextCreateT)>>) >>,
                 << WLeafTableCell(1, <<WText(TextTable), WText(TextT), WText(TextT),
                                        WInt(2), WText(TextCreateT)>>),
                    WLeafTableCell(2, <<WText(TextTable), WText(TextU), WText(TextU),
                                        WInt(3), WText(TextCreateU)>>) >> } }

\* the cells page 2 holds, by page kind
SecondPageCells(kind) ==
    CASE kind = "LeafTable" ->
           << WLeafTableCell(1, <<WNull, WText(TextBee), WInt(-5)>>),
              WLeafTableCell(300, <<WNull, WText(TextT), WInt(300)>>) >>
      [] kind = "InteriorTable" ->
           << WTableInteriorCell(3, 7), WTableInteriorCell(3, 300) >>
      [] kind = "LeafIndex" ->
           << WIdxLeafCell(<<WText(TextBee), WInt(1)>>),
              WIdxLeafCell(<<WText(TextT), WInt(2)>>) >>
      [] kind = "InteriorIdx" ->
           << WIdxInteriorCell(3, <<WText(TextBee), WInt(200)>>),
              WIdxInteriorCell(3, <<WText(TextT), WInt(-70000)>>) >>

\* the type bytes of page 2: the four of the file format and four others
TypeBytes == {0, 2, 5, 10, 13, 14, 128, 255}

\* the layout a page with an unknown type byte was written in
LayoutOf(type_byte) ==
    IF KindOfByte(type_byte) = "none" THEN "InteriorTable" ELSE KindOfByte(type_byte)

SecondPages ==
    { WPage(b, SubSeq(SecondPageCells(LayoutOf(b)), 1, n),
            IF LayoutOf(b) \in {"InteriorTable", "InteriorIdx"} THEN 3 ELSE 0) :
        b \in TypeBytes, n \in 0..2 }

ThirdPage == WPage(13, << WLeafTableCell(9, <<WInt(70000)>>) >>, 0)

\* the legal page sizes of the model
FilePageSizes == { 2 ^ 9, 2 ^ 12, 2 ^ 15, 2 ^ 16 }

Files ==
    { [page_size |-> S, pages |-> <<p1, p2, ThirdPage>>,
       file |-> MakeFile(S, <<p1, p2, ThirdPage>>)] :
        S \in FilePageSizes, p1 \in FirstPages, p2 \in SecondPages }


(***************************************************************************)
(* Reading pages of a file: the first page as get_first_page reads it, and *)
(* a page by its number as the handlers read a root page, through a Db     *)
(* opened on the file.                                                     *)
(***************************************************************************)
NoRead == [page_num |-> 0, opened |-> "", page_offset |-> 0, header_offset |-> 0]

FileInit ==
    /\ engine \in Files
    /\ op = "none"
    /\ arg = NoRead
    /\ out = Ok(<<>>)
    /\ bytes = <<>>
    /\ encoded_v = NoValue
    /\ varint_pc = "idle"
    /\ varint_out = [panic |-> FALSE, value |-> I64Zero, consumed |-> 0]

\* get_first_page: _get_page(file, 0, Some(100))
ReadFirstPage ==
    /\ op = "none"
    /\ arg' = [page_num |-> 1, opened |-> "", page_offset |-> 0, header_offset |-> 100]
    /\ out' = get_page_at(engine.file, 0, [some |-> TRUE, v |-> 100])
    /\ op' = "first_page"
    /\ UNCHANGED <<engine, varint_vars>>

\* Db::new, then get_page((page_num - 1) * page_size, None)
ReadPage ==
    /\ op = "none"
    /\ \E page_num \in 2..3, db \in {Db_new(engine.file)} :
          IF db.kind # "Ok"
          THEN /\ arg' = [NoRead EXCEPT !.page_num = page_num, !.opened = db.kind]
               /\ out' = db
          ELSE /\ arg' = [page_num |-> page_num, opened |-> "Ok",
                          page_offset |-> PageOffset(page_num, db.val.page_size),
                          header_offset |-> 0]
               /\ out' = get_page_at(db.val.file, PageOffset(page_num, db.val.page_size),
                                     [some |-> FALSE, v |-> 0])
    /\ op' = "page"
    /\ UNCHANGED <<engine, varint_vars>>

FileNext == ReadFirstPage \/ ReadPage

SpecFile == FileInit /\ [][FileNext]_vars

\* a page was read
PageRead == op = "first_page" \/ (op = "page" /\ arg.opened = "Ok")

\* the byte at the place the page header was read from
HeaderByte == ByteAt(engine.file, arg.page_offset + arg.header_offset)

\* C14: reading a page whose page_type byte is none of 0x02, 0x05, 0x0a, 0x0d returns
\* an error value and no page; reading one whose byte is 0x02, 0x05, 0x0a or 0x0d
\* returns the InteriorIndex, InteriorTable, LeafIndex or LeafTable page respectively.
C14_PageTypeByte ==
    PageRead =>
        /\ HeaderByte \notin {2, 5, 10, 13} => out.kind = "Err" /\ out.val = <<>>
        /\ HeaderByte = 2 => out.kind = "Ok" /\ out.val.type = "InteriorIdx"
        /\ HeaderByte = 5 => out.kind = "Ok" /\ out.val.type = "InteriorTable"
        /\ HeaderByte = 10 => out.kind = "Ok" /\ out.val.type = "LeafIndex"
        /\ HeaderByte = 13 => out.kind = "Ok" /\ out.val.type = "LeafTable"

\* page 2, whose type byte is 0x0e and which holds two cells, is read and refused
C14_Witness ==
    /\ op = "page" /\ arg.opened = "Ok" /\ arg.page_num = 2
    /\ arg.page_offset = engine.page_size
    /\ engine.pages[2].type_byte = 14
    /\ Len(engine.pages[2].cells) = 2
    /\ out.kind = "Err"

\* C16: every page p is read at byte offset (p - 1) * page_size, page_size being the
\* size the file header declares, the stored value 1 meaning 65536; or the file is
\* refused when it is opened.
C16_PageOffsetFromDeclaredSize ==
    op = "page" =>
        \/ arg.opened # "Ok"
        \/ arg.page_offset = (arg.page_num - 1) * engine.page_size

\* the page the writer put at page number p, as it decodes
WrittenPage(p) ==
    [type |-> KindOfByte(engine.pages[p].type_byte),
     cells |-> [k \in 1..Len(engine.pages[p].cells) |-> engine.pages[p].cells[k].cell],
     rightmost_pointer |-> engine.pages[p].rightmost]

\* C20: every page decoded from its place in the file (page 1 at page_offset 0 with
\* header_offset 100, a later page at its own offset) has the cells written at
\* page_offset + pointer, in pointer order: the header is read at page_offset +
\* header_offset, the pointers right after it, and header_offset does not shift the
\* cells.
C20_CellsAtPageOffsetPlusPointer ==
    (PageRead /\ arg.page_offset = (arg.page_num - 1) * engine.page_size
        /\ HeaderByte \in {2, 5, 10, 13}) =>
        out = Ok(WrittenPage(arg.page_num))

\* page 1, its header at byte 100, is read with its two schema rows
C20_Witness ==
    /\ op = "first_page"
    /\ arg.header_offset = 100
    /\ out.kind = "Ok"
    /\ Len(out.val.cells) = 2
    /\ out.val.cells[2].columns[4] = I8(3)


(***************************************************************************)
(* Files that end early: the file of three pages cut after some byte, as a *)
(* copy interrupted part-way leaves it.  Page 1 is whole in all of them.   *)
(***************************************************************************)
\* the four page kinds of page 2, each with no, one or two cells
WholeSecondPages ==
    { pg \in SecondPages : pg.type_byte \in {2, 5, 10, 13} }

\* the lengths the file is cut to: inside the pointer array of page 2, inside its
\* second and its first cell, after page 2, inside the cell of page 3, and not at all
TruncLens(S) ==
    { S + 12, S + 14, 2 * S - 2 * CellSlot + 5, 2 * S - CellSlot + 5, 2 * S,
      3 * S - CellSlot + 5, 3 * S }

\* the page sizes of the files cut short
TruncPageSizes == { 2 ^ 9, 2 ^ 12 }

TruncatedFiles ==
    UNION { { [page_size |-> S, pages |-> <<p1, p2, ThirdPage>>,
               file |-> [MakeFile(S, <<p1, p2, ThirdPage>>) EXCEPT !.len = L]] :
                p1 \in FirstPages, p2 \in WholeSecondPages, L \in TruncLens(S) } :
            S \in TruncPageSizes }

TruncatedInit ==
    /\ engine \in TruncatedFiles
    /\ op = "none"
    /\ arg = NoRead
    /\ out = Ok(<<>>)
    /\ bytes = <<>>
    /\ encoded_v = NoValue
    /\ varint_pc = "idle"
    /\ varint_out = [panic |-> FALSE, value |-> I64Zero, consumed |-> 0]

SpecTruncated == TruncatedInit /\ [][FileNext]_vars

\* the u16 at bytes 3..4 of the page header that was read
NumCellsField ==
    U16FromBe(<< ByteAt(engine.file, arg.page_offset + arg.header_offset + 3),
                 ByteAt(engine.file, arg.page_offset + arg.header_offset + 4) >>)

\* the length of the page header: 12 bytes on an interior page, 8 on a leaf
HeaderLen == IF IsInteriorByte(HeaderByte) THEN 12 ELSE 8

\* the file ends before the last byte of pointer k of the page that was read
PointerCutOff(k) ==
    arg.page_offset + arg.header_offset + HeaderLen + 2 * k > engine.file.len

\* the file ends before the last byte of cell k of the page that was read
CellCutOff(k) ==
    arg.page_offset + engine.page_size - CellSlot * k
        + Len(engine.pages[arg.page_num].cells[k].bytes) > engine.file.len

\* C21: a page read with success has exactly num_cells cells, num_cells being the
\* big-endian u16 at bytes 3..4 of its header, cell k being the one pointer k points
\* to; when the file ends before one of its pointers or cells, the read returns an
\* error value and no page.
C21_AllCellsOrError ==
    PageRead =>
        /\ out.kind \in {"Ok", "Err"}
        /\ out.kind = "Err" => out.val = <<>>
        /\ out.kind = "Ok" =>
              /\ Len(out.val.cells) = NumCellsField
              /\ out.val.cells = WrittenPage(arg.page_num).cells
        /\ (\E k \in 1..Len(engine.pages[arg.page_num].cells) :
               PointerCutOff(k) \/ CellCutOff(k)) => out.kind = "Err"

\* page 2, a leaf table page of two cells, read from a file that ends inside the
\* cell its first pointer points to, the cell of the second pointer being whole
C21_Witness ==
    /\ op = "page" /\ arg.opened = "Ok" /\ arg.page_num = 2
    /\ engine.pages[2].type_byte = 13
    /\ NumCellsField = 2
    /\ CellCutOff(1) /\ ~CellCutOff(2) /\ ~PointerCutOff(2)
    /\ out.kind = "Err"



(***************************************************************************)
(* The catalog loader on schemas with more than one index of a table: the  *)
(* table's row, then two or three CREATE INDEX rows naming that table.     *)
(***************************************************************************)
\* the indexes of companies: name, indexed column, CREATE statement
IndexOnCountry == [idx_name |-> IdxName, column |-> "country", sql |-> CompaniesIdxSqlText]
IndexOnName ==
    [idx_name |-> "idx_companies_name", column |-> "name", sql |-> CompaniesNameIdxSqlText]

IndexRow(x, root) == [idx |-> x, rootpage |-> root]

\* the index rows of a schema, in cell order: two or three rows with root pages of
\* their own
IndexRowLists ==
    { << IndexRow(x[1], r[1]), IndexRow(x[2], r[2]) >> :
        x \in { <<IndexOnCountry, IndexOnName>>, <<IndexOnName, IndexOnCountry>> },
        r \in { y \in (RootPages \ {TableRoot}) \X (RootPages \ {TableRoot}) : y[1] # y[2] } }
    \cup { << IndexRow(IndexOnCountry, r[1]), IndexRow(IndexOnName, r[2]),
              IndexRow(IndexOnCountry, r[3]) >> :
           r \in { <<3, 127, 70000>>, <<70000, 3, 127>>, <<3, 200, 127>>, <<3, 127, 200>> } }

\* page 1: the row of the table, then the index rows
IndexesPage(rows) ==
    LeafTablePage(
        << SchemaCell(1, "table", TableName, TableName, TableRoot, CompaniesSqlText) >>
        \o [k \in 1..Len(rows) |->
               SchemaCell(k + 1, "index", rows[k].idx.idx_name, TableName, rows[k].rootpage,
                          rows[k].idx.sql)])

IndexesInit ==
    /\ engine \in { [schema |-> rows, page |-> IndexesPage(rows)] : rows \in IndexRowLists }
    /\ op = "none"
    /\ arg = NoArg
    /\ out = Ok(<<>>)
    /\ bytes = <<>>
    /\ encoded_v = NoValue
    /\ varint_pc = "idle"
    /\ varint_out = [panic |-> FALSE, value |-> I64Zero, consumed |-> 0]

SpecIndexes == IndexesInit /\ [][CatalogNext]_vars

\* the descriptor of an index row
DescriptorOf(row) ==
    [root_page_num |-> row.rootpage, idx_name |-> row.idx.idx_name,
     columns |-> {row.idx.column}]

\* C22: a schema with several CREATE INDEX rows for one table is loaded with success;
\* idx_infos holds, under the table's name, the descriptor of the row that comes last
\* in the cell order of page 1, and the table's own descriptor is what its row says.
C22_LastIndexRowWins ==
    op = "load" =>
        /\ out.kind = "Ok"
        /\ DOMAIN out.val.idx_infos = {TableName}
        /\ out.val.idx_infos[TableName] = DescriptorOf(engine.schema[Len(engine.schema)])
        /\ out.val.table_infos = [t \in {TableName} |-> TableInfo(TableRoot)]



(***************************************************************************)
(* Files that are not as the writer leaves them, or hold keys the model's  *)
(* other files do not: a child page number 0, a child of a table page that *)
(* is an index page or lies beyond the end of the file, an index whose     *)
(* first key is NULL or an integer.  Each is a file of the model with one  *)
(* such change, opened by a build with or without overflow checks.         *)
(***************************************************************************)
\* the files the changes are made to: MaxRows rows, row ids from 2 on
SoundDatabases ==
    { d \in Databases : /\ Len(d.rows) = MaxRows
                        /\ d.rows[1].rowid = 2
                        /\ d.rows[1].country = "eritrea" }

IsInterior(page) == page.type \in {"InteriorTable", "InteriorIdx"}

\* the child slots of the interior pages of the given kind: <<page, k>>, k beyond the
\* cells standing for the rightmost pointer
ChildSlots(db, type) ==
    { s \in (DOMAIN db.pages) \X (1..(MaxRows + 1)) :
        /\ db.pages[s[1]].type = type
        /\ s[2] <= Len(db.pages[s[1]].cells) + 1 }

\* the pages with child slot s set to page number c
SetChild(pages, s, c) ==
    [pages EXCEPT ![s[1]] =
        IF s[2] <= Len(pages[s[1]].cells)
        THEN [pages[s[1]] EXCEPT !.cells[s[2]].left_child_page_num = c]
        ELSE [pages[s[1]] EXCEPT !.rightmost_pointer = c]]

Damaged(db, damage, pages, overflow_checks) ==
    [rows |-> db.rows, entries |-> db.entries, page_size |-> db.page_size,
     pages |-> pages, table_infos |-> db.table_infos, idx_infos |-> db.idx_infos,
     damage |-> damage, overflow_checks |-> overflow_checks]

LastPage(db) == TableRoot + Cardinality(DOMAIN db.pages) - 1

\* a leaf page of some other index
StrayIdxPage == LeafIdxPage(<< IdxLeafCell(<< Str("chad"), I8(9) >>) >>)

\* the pages and one more after them
WithPage(pages, p, page) ==
    [q \in (DOMAIN pages) \cup {p} |-> IF q = p THEN page ELSE pages[q]]

\* the index leaf holding the smallest keys: the root, or the left child of the
\* root's first cell
FirstIdxLeaf(db) ==
    LET root == db.idx_infos[TableName].root_page_num
    IN  IF db.pages[root].type = "LeafIndex" THEN root
        ELSE db.pages[root].cells[1].left_child_page_num

\* the keys that are not text: NULL and an integer, both sorting before every text
OtherKeys == { Null, I8(5) }

DamagedDatabases ==
    UNION { UNION {
        { Damaged(d, "zero_child", SetChild(d.pages, s, 0), oc) :
            s \in ChildSlots(d, "InteriorTable") \cup ChildSlots(d, "InteriorIdx") },
        { Damaged(d, "idx_child",
                  WithPage(SetChild(d.pages, s, LastPage(d) + 1), LastPage(d) + 1,
                           StrayIdxPage), oc) :
            s \in IF TableName \in DOMAIN d.idx_infos THEN {}
                  ELSE ChildSlots(d, "InteriorTable") },
        { Damaged(d, "lost_child", SetChild(d.pages, s, LastPage(d) + 1), oc) :
            s \in ChildSlots(d, "InteriorTable") },
        { Damaged(d, "other_key",
                  [d.pages EXCEPT ![FirstIdxLeaf(d)].cells[1].columns[1] = key], oc) :
            key \in IF TableName \in DOMAIN d.idx_infos THEN OtherKeys ELSE {} } } :
      d \in SoundDatabases, oc \in BOOLEAN }

DamagedInit ==
    /\ engine \in DamagedDatabases
    /\ op = "none"
    /\ arg = NoArg
    /\ out = Ok(<<>>)
    /\ bytes = <<>>
    /\ encoded_v = NoValue
    /\ varint_pc = "idle"
    /\ varint_out = [panic |-> FALSE, value |-> I64Zero, consumed |-> 0]

SpecDamaged == DamagedInit /\ [][Next]_vars


\* the child page number in slot s
ChildIn(pages, s) ==
    IF s[2] <= Len(pages[s[1]].cells) THEN pages[s[1]].cells[s[2]].left_child_page_num
    ELSE pages[s[1]].rightmost_pointer

\* the slots of the pages of the given kind whose child page number is 0
ZeroSlots(type) == { s \in ChildSlots(engine, type) : ChildIn(engine.pages, s) = 0 }

\* a scan of the table: no index, a SELECT list of columns of the table, each once
PlainScan ==
    /\ op = "select"
    /\ arg.table = TableName
    /\ ~HasIndex
    /\ NoDuplicates(arg.column_caps)
    /\ SeqToSet(arg.column_caps) \subseteq TableColumns

\* the index lookup reads the child in slot s of the index root: the left child of a
\* cell when the needle is within the keys of the root, the rightmost child otherwise
LookupReads(s) ==
    /\ op = "query_idx"
    /\ HasIndex
    /\ s[1] = engine.idx_infos[TableName].root_page_num
    /\ (s[2] <= Len(engine.pages[s[1]].cells))
          = InKeyRange(engine.pages[s[1]], arg.looking_for)

\* C23: a traversal that comes to a child page number 0, the scan in a cell or the
\* rightmost pointer of an interior table page, the index lookup in the slot of the
\* index root it reads, returns the error value NegativePageIndex.
C23_ChildZeroIsAnError ==
    ((PlainScan /\ ZeroSlots("InteriorTable") # {})
        \/ (\E s \in ZeroSlots("InteriorIdx") : LookupReads(s)))
    => out = Err("NegativePageIndex")



(***************************************************************************)
(* Claims about the index lookup on pages it cannot use                    *)
(***************************************************************************)
\* the root page of the table's index has no cells
EmptyIdxRoot ==
    /\ HasIndex
    /\ engine.pages[engine.idx_infos[TableName].root_page_num].type
           \in {"LeafIndex", "InteriorIdx"}
    /\ engine.pages[engine.idx_infos[TableName].root_page_num].cells = <<>>

\* C24: when the index lookup comes to an index page without cells, here the root of
\* the index of an empty table, find_rowids (query_idx) returns an error value, and so
\* does execute_select for a query answered through that index.
C24_EmptyIndexPageIsAnError ==
    (EmptyIdxRoot /\ (op = "query_idx"
                        \/ (op = "select" /\ arg.table = TableName /\ arg.condition.present)))
    => out.kind = "Err"


\* the index lookup for the needle reads the leaf holding the smallest keys: it is
\* the root, or the needle lies within the keys of the root
ReadsFirstIdxLeaf(needle) ==
    /\ HasIndex
    /\ LET root == engine.pages[engine.idx_infos[TableName].root_page_num]
       IN  root.type = "LeafIndex" \/ InKeyRange(root, needle)

\* the first cell of that leaf has a key that is not text
FirstKeyNotText ==
    /\ HasIndex
    /\ engine.pages[FirstIdxLeaf(engine)].cells # <<>>
    /\ engine.pages[FirstIdxLeaf(engine)].cells[1].columns[1].tag # "Str"

\* C25: an index lookup that reads a cell whose first key column is not a text (NULL,
\* an integer) fails with an error value, UnsupportedKeyType; the cell is not passed
\* over as one that does not match.
C25_OtherKeyIsAnError ==
    (op = "query_idx" /\ FirstKeyNotText /\ ReadsFirstIdxLeaf(arg.looking_for))
    => out.kind = "Err"



(***************************************************************************)
(* Claims about the scan on child pages it cannot use                      *)
(***************************************************************************)
\* the slots of the interior table pages whose child is an index page, or a page
\* number beyond the last page of the file
UnusableSlots ==
    { s \in ChildSlots(engine, "InteriorTable") :
        LET c == ChildIn(engine.pages, s)
        IN  \/ c > LastPage(engine)
            \/ c \in DOMAIN engine.pages
               /\ engine.pages[c].type \in {"LeafIndex", "InteriorIdx"} }

\* C26: a scan of a table one of whose interior pages has a child that cannot be
\* read, or that is an index page, returns an error value and no rows; the child is
\* not left out of a result made of the other children's rows.
C26_ScanFailsOnUnusableChild ==
    (PlainScan /\ UnusableSlots # {}) => (out.kind = "Err" /\ out.val = <<>>)

(***************************************************************************)
(* Claims about the positions of the selected columns.                     *)
(***************************************************************************)
\* the query ExecuteSelect built from the command's tokens
SelectedQuery == from_query_string(arg.column_caps, arg.table, arg.condition)

\* C27: for every SELECT list, one that names a column more than once included,
\* from_query_string gives each selected column a position smaller than the number
\* of entries of the columns map, so that the write row[position] into a row of
\* columns.len() fields is within bounds.
C27_PositionsWithinColumns ==
    op = "select" =>
        \A c \in DOMAIN SelectedQuery.columns :
            SelectedQuery.columns[c] < Cardinality(DOMAIN SelectedQuery.columns)

(***************************************************************************)
(* Claims about the two plans answering the same query.                    *)
(***************************************************************************)
\* a sequence of rows as a multiset: each row with the number of times it occurs
RowBag(rows) ==
    [r \in SeqToSet(rows) |-> Cardinality({ k \in 1..Len(rows) : rows[k] = r })]

\* C28: on a well-formed file (row ids increasing in the table tree, index keys
\* non-decreasing, every index entry agreeing with its table row), for a query
\* SELECT cols FROM t WHERE c = v on the indexed column c, the index plan ends as
\* the scan plan does and returns the same multiset of rows.
C28_IndexPlanEqualsScanPlan ==
    (op = "select" /\ Covered) =>
        LET scan == ScanPlan(engine, SelectedQuery)
        IN  /\ out.kind = scan.kind
            /\ out.kind = "Ok" => RowBag(out.val) = RowBag(scan.val)

(***************************************************************************)
(* The traversals, one page read at a time.  query_interior_page,          *)
(* get_row_interior and query_interior_idx call themselves for a child     *)
(* page that is an interior page; the calls in progress are kept here as a *)
(* stack of frames, one per interior page entered, each with the position  *)
(* of its loop over the page's children.  A step reads one child page and  *)
(* does with it what the function does, or returns to the caller.  The     *)
(* functions keep no set of visited pages and count no depth; the stack of *)
(* the process is finite, and a walk that needs more than MaxDepth frames  *)
(* ends with the process's stack exhausted.                                *)
(***************************************************************************)
MaxDepth == 4

\* the call on interior page `page`, about to visit its child number `cell`, the
\* children up to `last` being the ones the call visits
Frame(page, cell, last) == [page |-> page, cell |-> cell, last |-> last]

\* what a step leads to: the walk ended with a result, or goes on with the rows or
\* row ids collected so far
Finished(result) == [stack |-> <<>>, out |-> result, op |-> "done"]

Going(stack, res) ==
    IF stack = <<>> THEN Finished(Ok(res))
    ELSE [stack |-> stack, out |-> Ok(res), op |-> "walking"]

\* the caller's loop moves on to its next child
Advance(stack) ==
    IF stack = <<>> THEN stack ELSE [stack EXCEPT ![Len(stack)].cell = @ + 1]

\* a recursive call: one more frame
Call(stack, frame, res) ==
    IF Len(stack) >= MaxDepth
    THEN [stack |-> stack, out |-> Ok(res), op |-> "overflow"]
    ELSE [stack |-> Append(Advance(stack), frame), out |-> Ok(res), op |-> "walking"]

\* Ok(res) handed to the caller, which appends it to its own
Return(stack, res) == Going(SubSeq(stack, 1, Len(stack) - 1), res)

\* query_interior_page, for one child: the page is read and matched
ScanChild(db, stack, res, child_num, query, table_info) ==
    LET child == get_page(db, PageOffset(child_num, db.page_size))
    IN  IF child.kind # "Ok" THEN Finished(child)
        ELSE CASE child.val.type = "LeafTable" ->
                    LET r == query_leaf_page(child.val, query, table_info)
                    IN  IF r.kind # "Ok" THEN Finished(r)
                        ELSE Going(Advance(stack), res \o r.val)
               [] child.val.type = "InteriorTable" ->
                    Call(stack, Frame(child_num, 1, Len(child.val.cells) + 1), res)
               [] OTHER -> Going(Advance(stack), res)

\* query_interior_page: the next cell's left child, the rightmost child after the
\* cells, Ok(res) after that
ScanStep(db, stack, res, query, table_info) ==
    LET top == stack[Len(stack)]
    IN  IF top.cell > top.last THEN Return(stack, res)
        ELSE ScanChild(db, stack, res, ChildIn(db.pages, <<top.page, top.cell>>),
                       query, table_info)

\* a get_row_interior that hands get_row the page it was called on, not the child
\* it read
GetRowChild_SamePage(db, stack, child_num, rowid, table_info, query) ==
    LET page_num == IF stack = <<>> THEN child_num ELSE stack[Len(stack)].page
        child == get_page(db, PageOffset(page_num, db.page_size))
    IN  IF child.kind # "Ok" THEN Finished(child)
        ELSE CASE child.val.type = "LeafTable" ->
                    Finished(get_row_leaf(child.val, rowid, table_info, query))
               [] child.val.type = "InteriorTable" ->
                    Call(stack, Frame(page_num, 1, 1), <<>>)
               [] OTHER -> Finished(Panic("can't get row from an index page"))

\* get_row on the page get_row_interior read; its result is returned as it is
GetRowChild(db, stack, child_num, rowid, table_info, query) ==
    LET child == get_page(db, PageOffset(child_num, db.page_size))
    IN  IF child.kind # "Ok" THEN Finished(child)
        ELSE CASE child.val.type = "LeafTable" ->
                    Finished(get_row_leaf(child.val, rowid, table_info, query))
               [] child.val.type = "InteriorTable" ->
                    Call(stack, Frame(child_num, 1, 1), <<>>)
               [] OTHER -> Finished(Panic("can't get row from an index page"))

\* get_row_interior: the left child of the first cell whose row id is not below the
\* target, the rightmost child when the target is above the last cell's
GetRowStep(db, stack, rowid, table_info, query) ==
    LET page == db.pages[stack[Len(stack)].page]
        hits == { k \in 1..Len(page.cells) : rowid <= page.cells[k].rowid }
    IN  IF page.cells = <<>> THEN Finished(Panic("called Option::unwrap() on a None value"))
        ELSE IF page.cells[Len(page.cells)].rowid >= rowid
        THEN GetRowChild(db, stack,
                 page.cells[CHOOSE k \in hits : \A j \in hits : k <= j].left_child_page_num,
                 rowid, table_info, query)
        ELSE GetRowChild(db, stack, page.rightmost_pointer, rowid, table_info, query)

\* _query_idx on a page that was read: the match on the page variant, and for an
\* interior page the checks and the range test query_interior_idx starts with
IdxChild(db, stack, res, child, child_num, looking_for) ==
    IF child.kind # "Ok" THEN Finished(child)
    ELSE CASE child.val.type = "LeafTable" ->
                Finished(Panic("index root page is LeafTablePage"))
           [] child.val.type = "InteriorTable" ->
                Finished(Panic("index root page is InteriorTablePage"))
           [] child.val.type = "LeafIndex" ->
                LET r == query_leaf_idx(child.val, looking_for)
                IN  IF r.kind # "Ok" THEN Finished(r)
                    ELSE Going(Advance(stack), res \o r.val)
           [] child.val.type = "InteriorIdx" ->
                IF FirstCellCheck(child.val).kind # "Ok"
                THEN Finished(FirstCellCheck(child.val))
                ELSE Call(stack,
                          IF InKeyRange(child.val, looking_for)
                          THEN Frame(child_num, 1, Len(child.val.cells))
                          ELSE Frame(child_num, Len(child.val.cells) + 1,
                                     Len(child.val.cells) + 1),
                          res)

\* query_interior_idx: the next cell (its own row id, then its left child) when the
\* needle is within the page's keys, the rightmost child alone otherwise, Ok(res)
\* after that
IdxStep(db, stack, res, looking_for) ==
    LET top == stack[Len(stack)]
        page == db.pages[top.page]
    IN  IF top.cell > top.last THEN Return(stack, res)
        ELSE IF top.cell > Len(page.cells)
        THEN IdxChild(db, stack, res,
                      MapErr(get_page(db, PageOffset(page.rightmost_pointer, db.page_size)),
                             "can't get rightmost page"),
                      page.rightmost_pointer, looking_for)
        ELSE LET cell == page.cells[top.cell]
                 is_key == ColumnEq(cell.columns[1], Str(looking_for))
                 rowid == IF is_key THEN RowidOf(cell.columns[Len(cell.columns)]) ELSE Ok(0)
             IN  IF CellCheck(cell).kind # "Ok" THEN Finished(CellCheck(cell))
                 ELSE IF rowid.kind # "Ok" THEN Finished(rowid)
                 ELSE IdxChild(db, stack,
                               IF is_key THEN Append(res, rowid.val) ELSE res,
                               get_page(db, PageOffset(cell.left_child_page_num,
                                                       db.page_size)),
                               cell.left_child_page_num, looking_for)

\* the files walked: files of the writer, and the same with one child pointer of an
\* interior page set to another page of the file (the page itself, the table's root,
\* the file's last page or the one before it), which makes a page shared by two
\* parents, a child of the wrong kind, or a cycle
WalkRows ==
    [k \in 1..MaxRows |->
        [rowid |-> k + 1, country |-> IF k % 2 = 1 THEN "eritrea" ELSE "mongolia"]]

\* every table tree without an index, the trees of at most three pages with one
WalkBases ==
    UNION { { MakeDb(WalkRows, t, <<>>, FALSE) }
            \cup { MakeDb(WalkRows, t, x, TRUE) :
                     x \in IF Len(t) > 3 THEN {}
                           ELSE IdxTrees(IdxEntries(WalkRows), TableRoot + Len(t)) } :
            t \in TableTrees(WalkRows, TableRoot) }

RepointedDatabases ==
    UNION { UNION { { [d EXCEPT !.pages = SetChild(d.pages, s, c)] :
                        c \in {s[1], TableRoot, LastPage(d) - 1, LastPage(d)} } :
                    s \in ChildSlots(d, "InteriorTable") \cup ChildSlots(d, "InteriorIdx") } :
            d \in WalkBases }

WalkFiles == WalkBases \cup RepointedDatabases

WalkQuery == from_query_string(<<"id", "name", "country">>, TableName, NoCondition)

WalkArg(walk, rowid, looking_for, stack) ==
    [walk |-> walk, rowid |-> rowid, looking_for |-> looking_for, stack |-> stack]

WalkInit ==
    /\ engine \in WalkFiles
    /\ op = "none"
    /\ arg = WalkArg("none", 0, "", <<>>)
    /\ out = Ok(<<>>)
    /\ bytes = <<>>
    /\ encoded_v = NoValue
    /\ varint_pc = "idle"
    /\ varint_out = [panic |-> FALSE, value |-> I64Zero, consumed |-> 0]

\* what a step leads to becomes the state
Becomes(walk, rowid, looking_for, n) ==
    /\ arg' = WalkArg(walk, rowid, looking_for, n.stack)
    /\ out' = n.out
    /\ op' = n.op
    /\ UNCHANGED <<engine, varint_vars>>

\* execute_select, the scan plan: the table's root page is read and matched
ScanCall ==
    /\ op = "none"
    /\ \E table_info \in {engine.table_infos[TableName]} :
       \E page \in {get_page(engine, PageOffset(table_info.root_page_num, engine.page_size))} :
       \E n \in { IF page.kind = "Ok" /\ page.val.type \notin {"LeafTable", "InteriorTable"}
                  THEN Finished(Panic("not yet implemented"))
                  ELSE ScanChild(engine, <<>>, <<>>, table_info.root_page_num, WalkQuery,
                                 table_info) } :
          Becomes("scan", 0, "", n)

QueryInteriorPageStep ==
    /\ op = "walking" /\ arg.walk = "scan"
    /\ \E n \in { ScanStep(engine, arg.stack, out.val, WalkQuery,
                           engine.table_infos[TableName]) } :
          Becomes("scan", 0, "", n)

\* get_row on the table's root page
GetRowCall ==
    /\ op = "none"
    /\ \E rowid \in {2, MaxRows, MaxRows + 2} :
       \E n \in { GetRowChild(engine, <<>>, engine.table_infos[TableName].root_page_num,
                              rowid, engine.table_infos[TableName], WalkQuery) } :
          Becomes("get_row", rowid, "", n)

GetRowInteriorStep ==
    /\ op = "walking" /\ arg.walk = "get_row"
    /\ \E n \in { GetRowStep(engine, arg.stack, arg.rowid, engine.table_infos[TableName],
                             WalkQuery) } :
          Becomes("get_row", arg.rowid, "", n)

\* query_idx: the index's root page is read and handed to _query_idx
QueryIdxCall ==
    /\ op = "none"
    /\ \E looking_for \in Needles :
       \E n \in { IF TableName \notin DOMAIN engine.idx_infos
                  THEN Finished(Err("no index for table"))
                  ELSE IdxChild(engine, <<>>, <<>>,
                                get_page(engine,
                                         PageOffset(engine.idx_infos[TableName].root_page_num,
                                                    engine.page_size)),
                                engine.idx_infos[TableName].root_page_num, looking_for) } :
          Becomes("query_idx", 0, looking_for, n)

QueryInteriorIdxStep ==
    /\ op = "walking" /\ arg.walk = "query_idx"
    /\ \E n \in { IdxStep(engine, arg.stack, out.val, arg.looking_for) } :
          Becomes("query_idx", 0, arg.looking_for, n)

WalkNext ==
    \/ ScanCall \/ QueryInteriorPageStep
    \/ GetRowCall \/ GetRowInteriorStep
    \/ QueryIdxCall \/ QueryInteriorIdxStep

SpecWalk == WalkInit /\ [][WalkNext]_vars

\* a process that can take a step takes it
SpecWalkFair == SpecWalk /\ WF_vars(WalkNext)

(***************************************************************************)
(* Claims about the termination of the traversals.                         *)
(***************************************************************************)
\* the pages of the file an interior page points to
Children(pages, p) ==
    IF IsInterior(pages[p])
    THEN { ChildIn(pages, <<p, k>>) : k \in 1..(Len(pages[p].cells) + 1) } \cap DOMAIN pages
    ELSE {}

\* the pages reached from the pages S in at most n steps of at least one
RECURSIVE Below(_, _, _)
Below(pages, S, n) ==
    LET next == UNION { Children(pages, p) : p \in S }
    IN  IF n = 1 THEN next ELSE next \cup Below(pages, next, n - 1)

\* the page graph has no cycle: no page is below itself
Acyclic ==
    \A p \in DOMAIN engine.pages :
        p \notin Below(engine.pages, {p}, Cardinality(DOMAIN engine.pages))

\* the longest path from a page down to a page without children, on an acyclic graph
RECURSIVE Height(_, _)
Height(pages, p) ==
    IF Children(pages, p) = {} THEN 0
    ELSE 1 + (CHOOSE h \in { Height(pages, c) : c \in Children(pages, p) } :
                \A c \in Children(pages, p) : Height(pages, c) <= h)

\* what the recursive functions return for the walk in progress
WalkResult ==
    CASE arg.walk = "scan" -> ScanPlan(engine, WalkQuery)
      [] arg.walk = "get_row" ->
            get_row(engine, engine.pages[engine.table_infos[TableName].root_page_num],
                    arg.rowid, engine.table_infos[TableName], WalkQuery)
      [] arg.walk = "query_idx" -> query_idx(engine, TableName, arg.looking_for)

\* the steps compute what the recursive functions compute
WalkAgrees == (op = "done" /\ Acyclic) => out = WalkResult

\* every call in progress is on a child of its caller's page, strictly deeper in
\* the tree
StrictlyDeeper ==
    \A i \in 2..Len(arg.stack) :
        /\ arg.stack[i].page \in Children(engine.pages, arg.stack[i - 1].page)
        /\ Height(engine.pages, arg.stack[i].page)
              < Height(engine.pages, arg.stack[i - 1].page)

\* C29: on a file whose page graph is acyclic the table scan, the point lookup and
\* the index lookup each terminate, every call in progress reading a page strictly
\* deeper in the tree than its caller's; nothing but the acyclicity bounds the
\* recursion, so only on a file with a cycle does a walk exhaust the stack.
C29_WalksTerminateOnAcyclicFiles ==
    /\ [](Acyclic => StrictlyDeeper)
    /\ [](op = "overflow" => ~Acyclic)
    /\ (op = "walking" /\ Acyclic) ~> (op = "done")

\* the scan of a three-level table, in the call on the root's second interior
\* child with the rows of the first collected
C29_Witness ==
    /\ op = "walking" /\ arg.walk = "scan" /\ Acyclic
    /\ Len(arg.stack) = 2
    /\ arg.stack[1].cell > 2
    /\ StrictlyDeeper
    /\ out.val # <<>>


=============================================================================
